---- MODULE Spec2Model ----
(***************************************************************************)
(* Model of the tonapp custodial ledger: the SQLite ledger store           *)
(* (package database), the request handlers (package handler) and the      *)
(* chain collaborator as far as the handlers observe it (package ton).     *)
(*                                                                         *)
(* Money is counted in whole TON here; the code stores REAL (float64).     *)
(* Every request is served by one handler goroutine, modelled as a         *)
(* process p whose position is pc[p], whose locals are req[p] and whose    *)
(* HTTP answer is resp[p].  One step of a handler is one statement         *)
(* against the store or the chain collaborator.                            *)
(*                                                                         *)
(* Transactions (sql.Tx) follow SQLite: a transaction that has read keeps  *)
(* its snapshot; if another connection commits before the transaction's   *)
(* first write, that write returns SQLITE_BUSY and the deferred            *)
(* tx.Rollback() undoes it.  txStale holds the processes whose open read   *)
(* transaction has been overtaken by a commit.                             *)
(***************************************************************************)
EXTENDS Integers, Sequences, FiniteSets, TLC

VARIABLES
    users,              \* table users: id -> [pubKey, balance, refId]
    investments,        \* table investments: set of rows
    nextInvId,          \* AUTOINCREMENT of investments.id
    depositRequests,    \* table deposit_requests: set of rows
    withdrawalRequests, \* table withdrawal_requests: set of rows
    withdrawals,        \* table withdrawals: set of rows (read, never inserted)
    referralEarnings,   \* table referral_earnings: set of rows
    operations,         \* table operations: sequence of rows, id = position
    now,                \* time.Now().Unix()
    chainIn,            \* incoming payments the chain shows for the deposit wallet
    chainOut,           \* transfers the main wallet has sent
    txStale,            \* read transactions overtaken by a later commit
    pc,                 \* position of each handler
    req,                \* locals of each handler
    resp,               \* last answer of each handler
    ips                 \* IPRateLimiter.ips: client -> [tokens, lastRefill]

vars == <<users, investments, nextInvId, depositRequests, withdrawalRequests,
          withdrawals, referralEarnings, operations, now, chainIn, chainOut,
          txStale, pc, req, resp, ips>>

dbVars == <<users, investments, nextInvId, depositRequests, withdrawalRequests,
            withdrawals, referralEarnings, operations>>

chainVars == <<chainIn, chainOut>>

-----------------------------------------------------------------------------
(* Bounds of the model *)

MaxOps == 3

MaxDeposits == 2

MaxWithdrawals == 2

MaxEarnings == 3

MaxTransfers == 2

Procs == {"p1", "p2"}

RaceProcs == {"p1", "p2", "p3"}

AllProcs == Procs \cup RaceProcs

UserIds == {1, 2}

ReferralIds == {1, 2, 3, 4}

PubKeyOf == [u \in ReferralIds |-> <<"k1", "k2", "k3", "k4">>[u]]

ProfitInputs == {100}

PageInputs == {0, 1, 2}

PageSizeInputs == {0, 1, 2, 101}

PubKeys == {"k1", "k2"}

InitialBalance == 100

AmountInputs == {0, 10, 100}

DepositInputs == {0, 1000}

WithdrawInputs == {300, 501}

BalanceInputs == {0, -50}

SeqProcs == {"p1"}

TypeInputs == {"low", "gold"}

SecondsPerDay == 86400

-----------------------------------------------------------------------------
(* Configuration (config.json as documented in the README) *)

NoRef == 0

InvestmentTypes ==
    [low    |-> [weeklyPercentX100 |-> 150, minAmount |-> 50,  lockPeriod |-> 30],
     medium |-> [weeklyPercentX100 |-> 225, minAmount |-> 100, lockPeriod |-> 30],
     high   |-> [weeklyPercentX100 |-> 300, minAmount |-> 100, lockPeriod |-> 30]]

ReferralConfig ==
    [level1Percent |-> 7, level2Percent |-> 3, level3Percent |-> 1]

Instants == {0, 1, 30 * SecondsPerDay}

-----------------------------------------------------------------------------
(* Helpers over tables *)

RECURSIVE SumAmount(_)
SumAmount(S) ==
    IF S = {} THEN 0
    ELSE LET x == CHOOSE y \in S : TRUE
         IN  x.amount + SumAmount(S \ {x})

RECURSIVE SumSeqAmount(_)
SumSeqAmount(s) ==
    IF s = <<>> THEN 0 ELSE Head(s).amount + SumSeqAmount(Tail(s))

OpsOf(u, type) ==
    SelectSeq(operations, LAMBDA o : o.userId = u /\ o.type = type)

EmptyReq ==
    [op |-> "none", pubKey |-> "", uid |-> 0, ubal |-> 0, type |-> "",
     amount |-> 0, id |-> 0, cur |-> 0, createdAt |-> 0, memo |-> <<>>,
     hash |-> 0, chain |-> <<>>, apiKey |-> "", clientIP |-> ""]

NoData == [operations |-> <<>>, total |-> 0, page |-> 0, pageSize |-> 0]

NoResp == [status |-> "none", code |-> 0, remaining |-> 0, data |-> NoData]

Answer(status, code) ==
    [status |-> status, code |-> code, remaining |-> 0, data |-> NoData]

(* GetUserByPubKey: the row with that pub_key (UNIQUE), if any *)
UserByPubKey(k) == {u \in DOMAIN users : users[u].pubKey = k}

(* a request reaches its handler; the operation log is kept within MaxOps *)
Accept(p) ==
    /\ pc[p] = "idle"
    /\ Len(operations) < MaxOps

(* the handler answers and returns: its locals are gone *)
Finish(p, answer) ==
    /\ pc' = [pc EXCEPT ![p] = "idle"]
    /\ resp' = [resp EXCEPT ![p] = answer]
    /\ req' = [req EXCEPT ![p] = EmptyReq]

(* an autocommit statement or a commit of handler p lands *)
Lands(p) == txStale' = (txStale \ {p}) \cup {q \in AllProcs \ {p} : pc[q] \in {"ci_tx", "di_tx"}}

(* a commit lands: every other read transaction still open is overtaken *)
InReadTx(q) == pc[q] \in {"ci_tx", "di_tx"}

Overtaken(p) == {q \in AllProcs \ {p} : InReadTx(q)}

(* a store without isolation: the write of an overtaken transaction lands *)
TxCanWrite_NoIsolation(p) == TRUE

TxCanWrite(p) == p \notin txStale

-----------------------------------------------------------------------------
(* Handler.CreateInvestment and Database.CreateInvestment *)

(* an open that does not compare the balance with the amount *)
SufficientBalance_Unchecked(currentBalance, amount) == TRUE

(* if currentBalance < amount { return fmt.Errorf("insufficient balance") } *)
SufficientBalance(currentBalance, amount) == ~(currentBalance < amount)

DebitBalance(balance, amount) == balance - amount

(* validation, then GetUserByPubKey *)
HandlerCreateInvestment(p, pubKey, type, amount) ==
    /\ Accept(p)
    /\ LET r == [EmptyReq EXCEPT !.op = "open", !.pubKey = pubKey,
                                 !.type = type, !.amount = amount]
       IN
       IF type \notin DOMAIN InvestmentTypes
       THEN /\ Finish(p, Answer("invalid investment type", 400))
       ELSE IF amount <= 0
       THEN /\ Finish(p, Answer("investment amount must be positive", 400))
       ELSE IF UserByPubKey(pubKey) = {}
       THEN /\ Finish(p, Answer("failed to get user information", 500))
       ELSE LET u == CHOOSE u \in UserByPubKey(pubKey) : TRUE
            IN  /\ req' = [req EXCEPT ![p] = [r EXCEPT !.uid = u,
                                                      !.ubal = users[u].balance]]
                /\ pc' = [pc EXCEPT ![p] = "ci_begin"]
                /\ resp' = [resp EXCEPT ![p] = NoResp]
    /\ UNCHANGED <<dbVars, chainVars, now, ips, txStale>>

(* tx.Begin; SELECT balance; the balance check *)
DbCreateInvestmentRead(p) ==
    /\ pc[p] = "ci_begin"
    /\ LET u == req[p].uid IN
       IF u \notin DOMAIN users
       THEN /\ Finish(p, Answer("sql: no rows in result set", 400))
       ELSE IF ~SufficientBalance(users[u].balance, req[p].amount)
       THEN /\ Finish(p, Answer("insufficient balance", 400))
       ELSE /\ req' = [req EXCEPT ![p].cur = users[u].balance]
            /\ pc' = [pc EXCEPT ![p] = "ci_tx"]
            /\ UNCHANGED resp
    /\ txStale' = txStale \ {p}
    /\ UNCHANGED <<dbVars, chainVars, now, ips>>

(* UPDATE users, INSERT investments, INSERT operations, tx.Commit *)
DbCreateInvestmentCommit(p) ==
    /\ pc[p] = "ci_tx"
    /\ LET u == req[p].uid
           a == req[p].amount
       IN
       IF ~TxCanWrite(p)
       THEN /\ Finish(p, Answer("database is locked", 400))
            /\ txStale' = txStale \ {p}
            /\ UNCHANGED dbVars
       ELSE /\ users' = [users EXCEPT ![u].balance = DebitBalance(@, a)]
            /\ investments' = investments \cup
                   {[id |-> nextInvId, userId |-> u, type |-> req[p].type,
                     amount |-> a, createdAt |-> now]}
            /\ nextInvId' = nextInvId + 1
            /\ operations' = Append(operations,
                   [userId |-> u, type |-> "investment_created",
                    amount |-> a, createdAt |-> now])
            /\ txStale' = (txStale \ {p}) \cup Overtaken(p)
            /\ Finish(p, [Answer("investment created successfully", 201)
                             EXCEPT !.remaining = req[p].ubal - a])
            /\ UNCHANGED <<depositRequests, withdrawalRequests, withdrawals,
                           referralEarnings>>
    /\ UNCHANGED <<chainVars, now, ips>>

(* the statements of CreateInvestment's transaction, in order *)
OpenStatements ==
    <<"UPDATE users", "INSERT investments", "INSERT operations", "Commit">>

(* a transaction whose writes stay although it is rolled back *)
AfterRollback_WritesStay(before, written) == written

(* defer tx.Rollback(): the table as it was before the transaction's writes *)
AfterRollback(before, written) == before

(* statement number k of the transaction returns an error: the statements
   before it have written, CreateInvestment returns, the deferred Rollback
   runs and the handler answers 400 with the error *)
DbCreateInvestmentFail(p, k) ==
    /\ pc[p] = "ci_tx"
    /\ k \in DOMAIN OpenStatements
    /\ LET u == req[p].uid
           a == req[p].amount
           debited == [users EXCEPT ![u].balance = DebitBalance(@, a)]
           inserted == investments \cup
                          {[id |-> nextInvId, userId |-> u, type |-> req[p].type,
                            amount |-> a, createdAt |-> now]}
           appended == Append(operations,
                          [userId |-> u, type |-> "investment_created",
                           amount |-> a, createdAt |-> now])
       IN  /\ users' = IF k > 1 THEN AfterRollback(users, debited) ELSE users
           /\ investments' = IF k > 2 THEN AfterRollback(investments, inserted)
                             ELSE investments
           /\ operations' = IF k > 3 THEN AfterRollback(operations, appended)
                            ELSE operations
    /\ txStale' = txStale \ {p}
    /\ Finish(p, Answer(OpenStatements[k] \o " failed", 400))
    /\ UNCHANGED <<nextInvId, depositRequests, withdrawalRequests, withdrawals,
                   referralEarnings, chainVars, now, ips>>

-----------------------------------------------------------------------------
(* Handler.DeleteInvestment and Database.DeleteInvestment *)

(* a close that forgets to return the principal *)
CreditBalance_Forgotten(balance, amount) == balance

CreditBalance(balance, amount) == balance + amount

HandlerDeleteInvestment(p, pubKey, investmentID) ==
    /\ Accept(p)
    /\ LET r == [EmptyReq EXCEPT !.op = "close", !.pubKey = pubKey,
                                 !.id = investmentID]
       IN
       IF UserByPubKey(pubKey) = {}
       THEN /\ Finish(p, Answer("user not found", 404))
       ELSE LET u == CHOOSE u \in UserByPubKey(pubKey) : TRUE
            IN  /\ req' = [req EXCEPT ![p] = [r EXCEPT !.uid = u,
                                                      !.ubal = users[u].balance]]
                /\ pc' = [pc EXCEPT ![p] = "di_begin"]
                /\ resp' = [resp EXCEPT ![p] = NoResp]
    /\ UNCHANGED <<dbVars, chainVars, now, ips, txStale>>

(* a lookup by id alone, whoever owns the row *)
InvestmentOf_AnyOwner(u, investmentID) ==
    {i \in investments : i.id = investmentID}

(* the row SELECT ... WHERE id = ? AND user_id = ? finds *)
InvestmentOf(u, investmentID) ==
    {i \in investments : i.id = investmentID /\ i.userId = u}

(* tx.Begin; SELECT amount, type, created_at *)
DbDeleteInvestmentRead(p) ==
    /\ pc[p] = "di_begin"
    /\ LET found == InvestmentOf(req[p].uid, req[p].id) IN
       IF found = {}
       THEN /\ Finish(p, Answer("investment not found", 400))
       ELSE LET i == CHOOSE i \in found : TRUE
            IN  /\ req' = [req EXCEPT ![p].amount = i.amount,
                                      ![p].type = i.type,
                                      ![p].createdAt = i.createdAt]
                /\ pc' = [pc EXCEPT ![p] = "di_tx"]
                /\ UNCHANGED resp
    /\ txStale' = txStale \ {p}
    /\ UNCHANGED <<dbVars, chainVars, now, ips>>

(* DELETE investments, UPDATE users, INSERT operations, tx.Commit *)
DbDeleteInvestmentCommit(p) ==
    /\ pc[p] = "di_tx"
    /\ LET u == req[p].uid
           found == InvestmentOf(u, req[p].id)
       IN
       IF ~TxCanWrite(p)
       THEN /\ Finish(p, Answer("database is locked", 400))
            /\ txStale' = txStale \ {p}
            /\ UNCHANGED dbVars
       ELSE /\ investments' = investments \ found
            /\ users' = [w \in DOMAIN users |->
                           IF w = u
                           THEN [users[w] EXCEPT
                                   !.balance = CreditBalance(@, req[p].amount)]
                           ELSE users[w]]
            /\ operations' = Append(operations,
                   [userId |-> u, type |-> "investment_closed",
                    amount |-> req[p].amount, createdAt |-> now])
            /\ txStale' = (txStale \ {p}) \cup Overtaken(p)
            /\ Finish(p, Answer("investment deleted successfully", 200))
            /\ UNCHANGED <<nextInvId, depositRequests, withdrawalRequests,
                           withdrawals, referralEarnings>>
    /\ UNCHANGED <<chainVars, now, ips>>

-----------------------------------------------------------------------------
(* Handler.UpdateUserBalance and Database.UpdateUserBalance (admin) *)

(* binding:"required" refuses a zero user_id and a zero balance *)
ServeUpdateUserBalance(p, userID, balance) ==
    /\ IF userID = 0 \/ balance = 0
       THEN /\ Finish(p, Answer("invalid request body", 400))
            /\ UNCHANGED <<users, txStale>>
       ELSE /\ users' = [u \in DOMAIN users |->
                           IF u = userID
                           THEN [users[u] EXCEPT !.balance = balance]
                           ELSE users[u]]
            /\ Lands(p)
            /\ Finish(p, Answer("balance updated", 200))
    /\ UNCHANGED <<investments, nextInvId, depositRequests, withdrawalRequests,
                   withdrawals, referralEarnings, operations, chainVars, now, ips>>

(* a setBalance request that has passed the middleware *)
HandlerUpdateUserBalance(p, userID, balance) ==
    /\ pc[p] = "idle"
    /\ ServeUpdateUserBalance(p, userID, balance)

-----------------------------------------------------------------------------
(* Handler.CreateDeposit and Database.CreateDepositRequest *)

RECURSIVE Digits(_)
(* %d of a non-negative integer *)
Digits(n) == IF n < 10 THEN <<n>> ELSE Digits(n \div 10) \o <<n % 10>>

(* fmt.Sprintf("TON%d%d", user.ID, time.Now().Unix()): the digits after TON *)
Memo(userID, unix) == Digits(userID) \o Digits(unix)

(* binding min=1, GetUserByPubKey, the memo *)
HandlerCreateDeposit(p, pubKey, amount) ==
    /\ pc[p] = "idle"
    /\ Cardinality(depositRequests) < MaxDeposits
    /\ IF amount < 1
       THEN Finish(p, Answer("invalid request body", 400))
       ELSE IF UserByPubKey(pubKey) = {}
       THEN Finish(p, Answer("user not found", 404))
       ELSE LET u == CHOOSE u \in UserByPubKey(pubKey) : TRUE
            IN  /\ req' = [req EXCEPT ![p] =
                       [EmptyReq EXCEPT !.op = "intent", !.pubKey = pubKey,
                                        !.uid = u, !.ubal = users[u].balance,
                                        !.amount = amount,
                                        !.memo = Memo(u, now)]]
                /\ pc' = [pc EXCEPT ![p] = "dep_insert"]
                /\ resp' = [resp EXCEPT ![p] = NoResp]
    /\ UNCHANGED <<dbVars, chainVars, now, ips, txStale>>

(* INSERT INTO deposit_requests ... StatusPending *)
DbCreateDepositRequest(p) ==
    /\ pc[p] = "dep_insert"
    /\ depositRequests' = depositRequests \cup
           {[id |-> Cardinality(depositRequests) + 1, userId |-> req[p].uid,
             amount |-> req[p].amount, status |-> "pending",
             memo |-> req[p].memo, createdAt |-> now]}
    /\ Lands(p)
    /\ Finish(p, Answer("deposit request created", 200))
    /\ UNCHANGED <<users, investments, nextInvId, withdrawalRequests,
                   withdrawals, referralEarnings, operations, chainVars, now, ips>>

-----------------------------------------------------------------------------
(* The chain: somebody pays the deposit wallet *)

ChainPayment(memo, amount) ==
    /\ chainIn' = chainIn \cup {[memo |-> memo, amount |-> amount, utime |-> now]}
    /\ chainIn' # chainIn
    /\ UNCHANGED <<dbVars, chainOut, now, ips, txStale, pc, req, resp>>

-----------------------------------------------------------------------------
(* Handler.ConfirmDeposit, Client.CheckDeposit *)

LookbackSeconds == 30 * 60

FeePercent == 20

(* the payments CheckDeposit accepts for a deposit request *)
MatchingPayments(amount, memo) ==
    {t \in chainIn : /\ ~(t.utime < now - LookbackSeconds)
                     /\ t.memo = memo
                     /\ t.amount = amount}

(* GetUserByPubKey *)
HandlerConfirmDeposit(p, pubKey, depositID) ==
    /\ pc[p] = "idle"
    /\ IF UserByPubKey(pubKey) = {}
       THEN Finish(p, Answer("user not found", 404))
       ELSE LET u == CHOOSE u \in UserByPubKey(pubKey) : TRUE
            IN  /\ req' = [req EXCEPT ![p] =
                       [EmptyReq EXCEPT !.op = "confirm", !.pubKey = pubKey,
                                        !.uid = u, !.ubal = users[u].balance,
                                        !.id = depositID]]
                /\ pc' = [pc EXCEPT ![p] = "cd_get"]
                /\ resp' = [resp EXCEPT ![p] = NoResp]
    /\ UNCHANGED <<dbVars, chainVars, now, ips, txStale>>

(* a status check that lets every request through *)
NotPending_Unchecked(status) == FALSE

(* deposit.Status != "pending" *)
NotPending(status) == status # "pending"

(* an ownership check that lets every caller through *)
NotOwner_Unchecked(depositUserID, userID) == FALSE

(* deposit.UserID != user.ID *)
NotOwner(depositUserID, userID) == depositUserID # userID

(* GetDepositRequest, the ownership check, the status check *)
ConfirmDepositGet(p) ==
    /\ pc[p] = "cd_get"
    /\ LET found == {d \in depositRequests : d.id = req[p].id} IN
       IF found = {}
       THEN Finish(p, Answer("deposit request not found", 404))
       ELSE LET d == CHOOSE d \in found : TRUE IN
            IF NotOwner(d.userId, req[p].uid)
            THEN Finish(p, Answer("deposit request does not belong to user", 403))
            ELSE IF NotPending(d.status)
            THEN Finish(p, Answer("deposit request is not pending", 400))
            ELSE /\ req' = [req EXCEPT ![p].amount = d.amount,
                                       ![p].memo = d.memo]
                 /\ pc' = [pc EXCEPT ![p] = "cd_check"]
                 /\ UNCHANGED resp
    /\ UNCHANGED <<dbVars, chainVars, now, ips, txStale>>

(* CheckDeposit: the scan, and TransferFundsWithSplit on a match; the
   transport may fail in either *)
ConfirmDepositCheck(p, transport) ==
    /\ pc[p] = "cd_check"
    /\ IF transport = "scan fails"
       THEN /\ Finish(p, Answer("failed to check transaction", 500))
            /\ UNCHANGED chainOut
       ELSE IF MatchingPayments(req[p].amount, req[p].memo) = {}
       THEN /\ Finish(p, Answer("payment not received", 400))
            /\ UNCHANGED chainOut
       ELSE IF transport = "transfer fails"
       THEN /\ Finish(p, Answer("failed to check transaction", 500))
            /\ UNCHANGED chainOut
       ELSE /\ chainOut' = Append(chainOut,
                   [kind |-> "fee", to |-> "fee wallet", ref |-> req[p].memo,
                    amount |-> (req[p].amount * FeePercent) \div 100])
            /\ pc' = [pc EXCEPT ![p] = "cd_status"]
            /\ UNCHANGED <<req, resp>>
    /\ UNCHANGED <<dbVars, chainIn, now, ips, txStale>>

(* an UPDATE without its WHERE clause *)
UpdateDepositStatus_EveryRow(rows, id, status) ==
    {[d EXCEPT !.status = status] : d \in rows}

(* UPDATE deposit_requests SET status = ? WHERE id = ? *)
UpdateDepositStatus(rows, id, status) ==
    {IF d.id = id THEN [d EXCEPT !.status = status] ELSE d : d \in rows}

(* UpdateDepositStatus(deposit.ID, "completed") *)
ConfirmDepositStatus(p) ==
    /\ pc[p] = "cd_status"
    /\ depositRequests' = UpdateDepositStatus(depositRequests, req[p].id, "completed")
    /\ Lands(p)
    /\ pc' = [pc EXCEPT ![p] = "cd_balance"]
    /\ UNCHANGED <<users, investments, nextInvId, withdrawalRequests,
                   withdrawals, referralEarnings, operations, chainVars, now, ips,
                   req, resp>>

(* the balance ConfirmDeposit stores: the user row it read at the start
   plus the deposit *)
ConfirmedBalance(readBalance, storedBalance, amount) == readBalance + amount

(* UpdateUserBalance(user.ID, user.Balance+deposit.Amount) *)
ConfirmDepositBalance(p) ==
    /\ pc[p] = "cd_balance"
    /\ LET u == req[p].uid IN
       users' = [w \in DOMAIN users |->
                   IF w = u
                   THEN [users[w] EXCEPT !.balance =
                           ConfirmedBalance(req[p].ubal, @, req[p].amount)]
                   ELSE users[w]]
    /\ Lands(p)
    /\ Finish(p, Answer("completed", 200))
    /\ UNCHANGED <<investments, nextInvId, depositRequests, withdrawalRequests,
                   withdrawals, referralEarnings, operations, chainVars, now, ips>>

(* UpdateDepositStatus returns an error: nothing is written, answer 500 *)
ConfirmDepositStatusFails(p) ==
    /\ pc[p] = "cd_status"
    /\ Finish(p, Answer("failed to update deposit status", 500))
    /\ UNCHANGED <<dbVars, chainVars, now, ips, txStale>>

(* UpdateUserBalance returns an error after the status has been updated:
   the balance is not written, answer 500 *)
ConfirmDepositBalanceFails(p) ==
    /\ pc[p] = "cd_balance"
    /\ Finish(p, Answer("failed to update user balance", 500))
    /\ UNCHANGED <<dbVars, chainVars, now, ips, txStale>>

-----------------------------------------------------------------------------
(* Handler.WithdrawFunds, Client.WithdrawUserFunds *)

(* binding gt=0, GetUserByPubKey *)
HandlerWithdrawFunds(p, pubKey, amount) ==
    /\ Accept(p)
    /\ Cardinality(withdrawalRequests) < MaxWithdrawals
    /\ IF ~(amount > 0)
       THEN Finish(p, Answer("invalid request body", 400))
       ELSE IF UserByPubKey(pubKey) = {}
       THEN Finish(p, Answer("user not found", 404))
       ELSE LET u == CHOOSE u \in UserByPubKey(pubKey) : TRUE
            IN  /\ req' = [req EXCEPT ![p] =
                       [EmptyReq EXCEPT !.op = "withdraw", !.pubKey = pubKey,
                                        !.uid = u, !.ubal = users[u].balance,
                                        !.amount = amount]]
                /\ pc' = [pc EXCEPT ![p] = "wf_deposits"]
                /\ resp' = [resp EXCEPT ![p] = NoResp]
    /\ UNCHANGED <<dbVars, chainVars, now, ips, txStale>>

(* a loop that skips the requests that are not completed *)
Uncompleted_Skipped(status) == FALSE

(* the else branch of deposit.Status == "completed" *)
Uncompleted(status) == status # "completed"

(* GetDepositsOfUser and the loop over it: MathDeposits, kept in req.cur *)
WithdrawDeposits(p) ==
    /\ pc[p] = "wf_deposits"
    /\ LET mine == {d \in depositRequests : d.userId = req[p].uid} IN
       IF \E d \in mine : Uncompleted(d.status)
       THEN Finish(p, Answer("user has uncompleted deposits", 400))
       ELSE /\ req' = [req EXCEPT ![p].cur =
                          SumAmount({d \in mine : d.status = "completed"})]
            /\ pc' = [pc EXCEPT ![p] = "wf_history"]
            /\ UNCHANGED resp
    /\ UNCHANGED <<dbVars, chainVars, now, ips, txStale>>

(* the rows GetWithdrawalRequestsByUser returns: SELECT ... FROM withdrawals *)
WithdrawalHistory(u) == {w \in withdrawals : w.userId = u}

(* availableBalance < req.Amount, with availableBalance =
   MathDeposits - MathDeposits * 0.2 - Mathwithdrawal *)
ExceedsAvailable(mathDeposits, mathWithdrawal, amount) ==
    (100 - FeePercent) * mathDeposits - 100 * mathWithdrawal < 100 * amount

(* GetWithdrawalRequestsByUser, the loop over it, the two ceiling checks *)
WithdrawHistory(p) ==
    /\ pc[p] = "wf_history"
    /\ LET mine == WithdrawalHistory(req[p].uid) IN
       IF \E w \in mine : w.status # "completed"
       THEN Finish(p, Answer("user has uncompleted withdrawals", 400))
       ELSE IF ExceedsAvailable(req[p].cur, SumAmount(mine), req[p].amount)
       THEN Finish(p, Answer("insufficient balance", 400))
       ELSE IF req[p].ubal < req[p].amount
       THEN Finish(p, Answer("insufficient balance", 400))
       ELSE /\ pc' = [pc EXCEPT ![p] = "wf_insert"]
            /\ UNCHANGED <<req, resp>>
    /\ UNCHANGED <<dbVars, chainVars, now, ips, txStale>>

(* CreateWithdrawalRequest: INSERT INTO withdrawal_requests ... StatusPending *)
WithdrawInsert(p) ==
    /\ pc[p] = "wf_insert"
    /\ withdrawalRequests' = withdrawalRequests \cup
           {[id |-> Cardinality(withdrawalRequests) + 1, userId |-> req[p].uid,
             amount |-> req[p].amount, status |-> "pending"]}
    /\ Lands(p)
    /\ pc' = [pc EXCEPT ![p] = "wf_confirm"]
    /\ UNCHANGED <<users, investments, nextInvId, depositRequests, withdrawals,
                   referralEarnings, operations, chainVars, now, ips, req, resp>>

(* ConfirmWithdrawalRequest(user.ID):
   UPDATE withdrawal_requests SET status = completed WHERE id = <user id> *)
WithdrawConfirm(p) ==
    /\ pc[p] = "wf_confirm"
    /\ withdrawalRequests' =
           {IF w.id = req[p].uid THEN [w EXCEPT !.status = "completed"] ELSE w :
              w \in withdrawalRequests}
    /\ Lands(p)
    /\ pc' = [pc EXCEPT ![p] = "wf_send"]
    /\ UNCHANGED <<users, investments, nextInvId, depositRequests, withdrawals,
                   referralEarnings, operations, chainVars, now, ips, req, resp>>

(* WithdrawUserFunds: the transfer is sent and its hash returned, or fails *)
WithdrawSend(p, transport) ==
    /\ pc[p] = "wf_send"
    /\ IF transport # "ok"
       THEN /\ Finish(p, Answer("Failed to withdraw funds", 500))
            /\ UNCHANGED chainOut
       ELSE /\ chainOut' = Append(chainOut,
                   [kind |-> "withdrawal", to |-> req[p].pubKey, ref |-> <<>>,
                    amount |-> req[p].amount])
            /\ req' = [req EXCEPT ![p].hash = Len(chainOut) + 1]
            /\ pc' = [pc EXCEPT ![p] = "wf_hash"]
            /\ UNCHANGED resp
    /\ UNCHANGED <<dbVars, chainIn, now, ips, txStale>>

(* the row UpdateWithdrawalTxHash updates: the user's latest in withdrawals *)
LatestWithdrawal(u) ==
    {w \in WithdrawalHistory(u) :
        \A v \in WithdrawalHistory(u) : v.id <= w.id}

(* UpdateWithdrawalTxHash; its error is logged and dropped *)
WithdrawStoreHash(p) ==
    /\ pc[p] = "wf_hash"
    /\ withdrawals' =
           {IF w \in LatestWithdrawal(req[p].uid)
            THEN [w EXCEPT !.txHash = req[p].hash, !.status = "completed"]
            ELSE w : w \in withdrawals}
    /\ Lands(p)
    /\ pc' = [pc EXCEPT ![p] = "wf_balance"]
    /\ UNCHANGED <<users, investments, nextInvId, depositRequests,
                   withdrawalRequests, referralEarnings, operations, chainVars,
                   now, ips, req, resp>>

(* UpdateUserBalance(user.ID, user.Balance - req.Amount) *)
WithdrawBalance(p) ==
    /\ pc[p] = "wf_balance"
    /\ LET u == req[p].uid IN
       users' = [w \in DOMAIN users |->
                   IF w = u
                   THEN [users[w] EXCEPT !.balance = req[p].ubal - req[p].amount]
                   ELSE users[w]]
    /\ Lands(p)
    /\ pc' = [pc EXCEPT ![p] = "wf_operation"]
    /\ UNCHANGED <<investments, nextInvId, depositRequests, withdrawalRequests,
                   withdrawals, referralEarnings, operations, chainVars, now, ips,
                   req, resp>>

(* AddOperation(type "withdrawal"), then the answer *)
WithdrawOperation(p) ==
    /\ pc[p] = "wf_operation"
    /\ operations' = Append(operations,
           [userId |-> req[p].uid, type |-> "withdrawal",
            amount |-> req[p].amount, createdAt |-> now])
    /\ Lands(p)
    /\ Finish(p, [Answer("withdrawn", 200) EXCEPT !.remaining = req[p].hash])
    /\ UNCHANGED <<users, investments, nextInvId, depositRequests,
                   withdrawalRequests, withdrawals, referralEarnings,
                   chainVars, now, ips>>

(* a handler that reports the AddOperation error to the caller *)
AfterOperationError_Reported(txHash) == Answer("failed to add operation", 500)

(* the AddOperation error is printed and the handler goes on to
   c.JSON(http.StatusOK, WithdrawalResponse{..., TxHash: txHash}) *)
AfterOperationError(txHash) == [Answer("withdrawn", 200) EXCEPT !.remaining = txHash]

(* AddOperation returns an error: no row is appended *)
WithdrawOperationFails(p) ==
    /\ pc[p] = "wf_operation"
    /\ Finish(p, AfterOperationError(req[p].hash))
    /\ UNCHANGED <<dbVars, chainVars, now, ips, txStale>>

-----------------------------------------------------------------------------
(* The clock *)

Tick(t) ==
    /\ t > now
    /\ now' = t
    /\ UNCHANGED <<dbVars, chainVars, txStale, pc, req, resp, ips>>

-----------------------------------------------------------------------------
(* Handler.CreateUser / Database.CreateUser, Handler.DeleteUser /
   Database.DeleteUser *)

(* GetUserByPubKey: a registered pub_key answers with the stored user *)
HandlerCreateUser(p, pubKey, refID, customID) ==
    /\ Accept(p)
    /\ IF UserByPubKey(pubKey) # {}
       THEN Finish(p, Answer("user", 200))
       ELSE /\ req' = [req EXCEPT ![p] =
                          [EmptyReq EXCEPT !.op = "createUser", !.pubKey = pubKey,
                                           !.cur = refID, !.id = customID]]
            /\ pc' = [pc EXCEPT ![p] = "cu_insert"]
            /\ resp' = [resp EXCEPT ![p] = NoResp]
    /\ UNCHANGED <<dbVars, chainVars, now, ips, txStale>>

(* a users table whose pub_key column is not UNIQUE *)
PubKeyTaken_NotUnique(pubKey) == FALSE

(* pub_key TEXT UNIQUE NOT NULL: the INSERT fails when a row holds pubKey *)
PubKeyTaken(pubKey) == UserByPubKey(pubKey) # {}

(* INSERT INTO users (id, pub_key, balance, ref_id) VALUES (?, ?, 0, ?):
   id is the PRIMARY KEY, pub_key is UNIQUE, ref_id is stored as given *)
DbCreateUserInsert(p) ==
    /\ pc[p] = "cu_insert"
    /\ IF req[p].id \in DOMAIN users \/ PubKeyTaken(req[p].pubKey)
       THEN /\ Finish(p, Answer("failed to create user", 500))
            /\ UNCHANGED <<users, txStale>>
       ELSE /\ users' = [u \in DOMAIN users \cup {req[p].id} |->
                           IF u = req[p].id
                           THEN [pubKey |-> req[p].pubKey, balance |-> 0,
                                 refId |-> req[p].cur]
                           ELSE users[u]]
            /\ Lands(p)
            /\ Finish(p, Answer("user", 200))
    /\ UNCHANGED <<investments, nextInvId, depositRequests, withdrawalRequests,
                   withdrawals, referralEarnings, operations, chainVars, now, ips>>

(* DELETE FROM investments WHERE user_id = ?; DELETE FROM users WHERE id = ? *)
ServeDeleteUser(p, userID) ==
    /\ investments' = {i \in investments : i.userId # userID}
    /\ users' = [u \in DOMAIN users \ {userID} |-> users[u]]
    /\ Lands(p)
    /\ Finish(p, Answer("deleted", 200))
    /\ UNCHANGED <<nextInvId, depositRequests, withdrawalRequests, withdrawals,
                   referralEarnings, operations, chainVars, now, ips>>

(* a deleteUser request that has passed the middleware *)
HandlerDeleteUser(p, userID) ==
    /\ Accept(p)
    /\ ServeDeleteUser(p, userID)

-----------------------------------------------------------------------------
(* The admin routes: Handler.AdminAuth ahead of DeleteUser and
   UpdateUserBalance *)

(* config.AdminAPIKey of the running server *)
AdminAPIKey == "admin-key"

(* a middleware that lets every key through *)
InvalidKey_Unchecked(apiKey) == FALSE

(* apiKey != h.config.AdminAPIKey *)
InvalidKey(apiKey) == apiKey # AdminAPIKey

(* a DELETE /users/:id or PUT /users/:id/balance request reaches the router:
   c.GetHeader("X-API-Key") is "" when the header is absent *)
AdminRequest(p, op, apiKey, userID, balance) ==
    /\ pc[p] = "idle"
    /\ op \in {"setBalance", "deleteUser"}
    /\ req' = [req EXCEPT ![p] =
                  [EmptyReq EXCEPT !.op = op, !.apiKey = apiKey, !.uid = userID,
                                   !.amount = balance]]
    /\ pc' = [pc EXCEPT ![p] = "admin_auth"]
    /\ resp' = [resp EXCEPT ![p] = NoResp]
    /\ UNCHANGED <<dbVars, chainVars, now, ips, txStale>>

(* AdminAuth: AbortWithStatusJSON(401) or c.Next() *)
AdminAuth(p) ==
    /\ pc[p] = "admin_auth"
    /\ IF InvalidKey(req[p].apiKey)
       THEN Finish(p, Answer("invalid API key", 401))
       ELSE /\ pc' = [pc EXCEPT ![p] = "admin_next"]
            /\ UNCHANGED <<req, resp>>
    /\ UNCHANGED <<dbVars, chainVars, now, ips, txStale>>

(* the handler the route names runs *)
AdminNext(p) ==
    /\ pc[p] = "admin_next"
    /\ IF req[p].op = "setBalance"
       THEN ServeUpdateUserBalance(p, req[p].uid, req[p].amount)
       ELSE ServeDeleteUser(p, req[p].uid)

-----------------------------------------------------------------------------
(* Handler.ProcessReferralEarnings and Database.AddReferralEarning *)

MaxHops == 3

LevelPercent(level) ==
    CASE level = 1 -> ReferralConfig.level1Percent
      [] level = 2 -> ReferralConfig.level2Percent
      [] level = 3 -> ReferralConfig.level3Percent
      [] OTHER     -> 0

Earnings(profitAmount, level) == (profitAmount * LevelPercent(level)) \div 100

(* a profit of userID is to be distributed; the table of earnings is kept
   within MaxEarnings *)
ProcessReferralEarnings(p, userID, profitAmount) ==
    /\ Accept(p)
    /\ Cardinality(referralEarnings) + MaxHops <= MaxEarnings
    /\ req' = [req EXCEPT ![p] =
                  [EmptyReq EXCEPT !.op = "distribute", !.uid = userID,
                                   !.amount = profitAmount, !.cur = userID]]
    /\ pc' = [pc EXCEPT ![p] = "re_chain"]
    /\ resp' = [resp EXCEPT ![p] = NoResp]
    /\ UNCHANGED <<dbVars, chainVars, now, ips, txStale>>

(* the handler has the chain: it pays the first level or returns nil *)
ChainBuilt(p, chain) ==
    /\ req' = [req EXCEPT ![p].chain = chain]
    /\ pc' = [pc EXCEPT ![p] = "re_earn"]
    /\ UNCHANGED resp

(* a walk that goes on as long as it finds a referrer *)
WalkDone_Unbounded(chain) == FALSE

(* for i := 0; i < 3; i++: the loop ends after the third referrer *)
WalkDone(chain) == Len(chain) = MaxHops

(* SELECT ref_id FROM users WHERE id = currentUserID, at most three times *)
ReferrerChainRead(p) ==
    /\ pc[p] = "re_chain"
    /\ LET cur == req[p].cur IN
       IF cur \notin DOMAIN users
       THEN Finish(p, Answer("sql: no rows in result set", 500))
       ELSE IF users[cur].refId = NoRef
       THEN ChainBuilt(p, req[p].chain)
       ELSE LET chain == Append(req[p].chain, users[cur].refId) IN
            IF WalkDone(chain)
            THEN ChainBuilt(p, chain)
            ELSE /\ req' = [req EXCEPT ![p].chain = chain,
                                       ![p].cur = users[cur].refId]
                 /\ UNCHANGED <<pc, resp>>
    /\ UNCHANGED <<dbVars, chainVars, now, ips, txStale>>

(* one turn of the second loop: AddReferralEarning inserts the row and
   credits the referrer in one transaction; the UPDATE of a referrer that
   does not exist changes no row *)
AddReferralEarning(p) ==
    /\ pc[p] = "re_earn"
    /\ LET level == req[p].id + 1 IN
       IF level > Len(req[p].chain)
       THEN /\ Finish(p, Answer("distributed", 200))
            /\ UNCHANGED <<users, referralEarnings, txStale>>
       ELSE LET referrerID == req[p].chain[level]
                earnings == Earnings(req[p].amount, level)
            IN  /\ referralEarnings' = referralEarnings \cup
                       {[id |-> Cardinality(referralEarnings) + 1,
                         referrerId |-> referrerID, referredId |-> req[p].uid,
                         amount |-> earnings, level |-> level]}
                /\ users' = [u \in DOMAIN users |->
                               IF u = referrerID
                               THEN [users[u] EXCEPT !.balance = @ + earnings]
                               ELSE users[u]]
                /\ Lands(p)
                /\ req' = [req EXCEPT ![p].id = level]
                /\ UNCHANGED <<pc, resp>>
    /\ UNCHANGED <<investments, nextInvId, depositRequests, withdrawalRequests,
                   withdrawals, operations, chainVars, now, ips>>

(* the statements of AddReferralEarning's transaction, in order *)
EarningStatements == <<"INSERT referral_earnings", "UPDATE users", "Commit">>

(* a loop that goes to the next level after an error *)
HopFailed_Ignored(err) == FALSE

(* if err := h.db.AddReferralEarning(...); err != nil { return err } *)
HopFailed(err) == err # ""

(* statement number k of AddReferralEarning's transaction returns an error at
   the level the loop has reached: the deferred Rollback undoes the
   statements before it and ProcessReferralEarnings returns the error *)
AddReferralEarningFails(p, k) ==
    /\ pc[p] = "re_earn"
    /\ k \in DOMAIN EarningStatements
    /\ LET level == req[p].id + 1
           err == EarningStatements[k] \o " failed"
       IN
       /\ level <= Len(req[p].chain)
       /\ LET referrerID == req[p].chain[level]
              earnings == Earnings(req[p].amount, level)
              inserted == referralEarnings \cup
                             {[id |-> Cardinality(referralEarnings) + 1,
                               referrerId |-> referrerID,
                               referredId |-> req[p].uid,
                               amount |-> earnings, level |-> level]}
              credited == [u \in DOMAIN users |->
                             IF u = referrerID
                             THEN [users[u] EXCEPT !.balance = @ + earnings]
                             ELSE users[u]]
          IN  /\ referralEarnings' =
                    IF k > 1 THEN AfterRollback(referralEarnings, inserted)
                    ELSE referralEarnings
              /\ users' = IF k > 2 THEN AfterRollback(users, credited) ELSE users
       /\ IF HopFailed(err)
          THEN Finish(p, Answer(err, 500))
          ELSE /\ req' = [req EXCEPT ![p].id = level]
               /\ UNCHANGED <<pc, resp>>
    /\ UNCHANGED <<investments, nextInvId, depositRequests, withdrawalRequests,
                   withdrawals, operations, chainVars, now, ips, txStale>>

-----------------------------------------------------------------------------
(* Handler.GetUserOperations and Database.GetUserOperations *)

DefaultPage == 1

DefaultPageSize == 10

MaxPageSize == 100

(* c.Query("page"), c.Query("page_size"): a value out of range keeps the default *)
PageOf(page) == IF page > 0 THEN page ELSE DefaultPage

PageSizeOf(pageSize) ==
    IF pageSize > 0 /\ pageSize <= MaxPageSize THEN pageSize ELSE DefaultPageSize

HandlerGetUserOperations(p, pubKey, page, pageSize) ==
    /\ pc[p] = "idle"
    /\ IF UserByPubKey(pubKey) = {}
       THEN Finish(p, Answer("user not found", 404))
       ELSE LET u == CHOOSE u \in UserByPubKey(pubKey) : TRUE
            IN  /\ req' = [req EXCEPT ![p] =
                              [EmptyReq EXCEPT !.op = "operations", !.pubKey = pubKey,
                                               !.uid = u, !.id = PageOf(page),
                                               !.cur = PageSizeOf(pageSize)]]
                /\ pc' = [pc EXCEPT ![p] = "go_count"]
                /\ resp' = [resp EXCEPT ![p] = NoResp]
    /\ UNCHANGED <<dbVars, chainVars, now, ips, txStale>>

(* the ids (positions) of the user's rows in table operations *)
OperationIds(u) == {i \in 1..Len(operations) : operations[i].userId = u}

(* SELECT COUNT( * ) FROM operations WHERE user_id = ? *)
DbGetUserOperationsCount(p) ==
    /\ pc[p] = "go_count"
    /\ req' = [req EXCEPT ![p].amount = Cardinality(OperationIds(req[p].uid))]
    /\ pc' = [pc EXCEPT ![p] = "go_select"]
    /\ UNCHANGED <<dbVars, chainVars, now, ips, txStale, resp>>

(* the orders ORDER BY created_at DESC allows: rows with equal created_at
   come in any order *)
CreatedAtDesc(ids) ==
    {s \in [1..Cardinality(ids) -> ids] :
        /\ \A i, j \in DOMAIN s : i # j => s[i] # s[j]
        /\ \A i, j \in DOMAIN s :
              i < j => operations[s[i]].createdAt >= operations[s[j]].createdAt}

Min(a, b) == IF a < b THEN a ELSE b

(* LIMIT pageSize OFFSET offset *)
LimitOffset(s, pageSize, offset) ==
    SubSeq(s, offset + 1, Min(offset + pageSize, Len(s)))

(* SELECT ... WHERE user_id = ? ORDER BY created_at DESC LIMIT ? OFFSET ? *)
DbGetUserOperationsSelect(p) ==
    /\ pc[p] = "go_select"
    /\ \E s \in CreatedAtDesc(OperationIds(req[p].uid)) :
          LET offset == (req[p].id - 1) * req[p].cur IN
          Finish(p, [Answer("operations", 200) EXCEPT
                        !.data = [operations |-> LimitOffset(s, req[p].cur, offset),
                                  total |-> req[p].amount,
                                  page |-> req[p].id,
                                  pageSize |-> req[p].cur]])
    /\ UNCHANGED <<dbVars, chainVars, now, ips, txStale>>

-----------------------------------------------------------------------------
(* main, setupRouter and IPRateLimiter: the router and its middleware *)

(* config.RateLimit *)
RequestsPerSecond == 1

BurstSize == 2

ApiRoutes ==
    {"createUser", "open", "close", "deposit", "confirm", "withdraw",
     "operations"}

(* the calls main makes on the gin engine, in program order: setupRouter
   registers its middleware and then the routes, and main calls
   router.Use(rateLimiter.RateLimit()) on the router setupRouter returned *)
RouterCalls ==
    <<[call |-> "Use", name |-> "Recovery"],
      [call |-> "Use", name |-> "Logger"],
      [call |-> "Use", name |-> "CORS"],
      [call |-> "Handle", name |-> "createUser"],
      [call |-> "Handle", name |-> "operations"],
      [call |-> "Handle", name |-> "withdraw"],
      [call |-> "Handle", name |-> "open"],
      [call |-> "Handle", name |-> "close"],
      [call |-> "Handle", name |-> "deposit"],
      [call |-> "Handle", name |-> "confirm"],
      [call |-> "Use", name |-> "RateLimit"]>>

(* the middleware in front of a route: gin combines a route's handlers with
   the middleware of its group when the route is registered, so a later Use
   does not reach it; the handlers of an unmatched path are rebuilt on every
   Use and hold every middleware *)
ChainOf(route) ==
    LET registered == {i \in DOMAIN RouterCalls :
                          RouterCalls[i].call = "Handle" /\ RouterCalls[i].name = route}
        before(i) == \A j \in registered : i < j
    IN  {RouterCalls[i].name :
            i \in {k \in DOMAIN RouterCalls : RouterCalls[k].call = "Use" /\ before(k)}}

(* getRateLimiter: the bucket of the client, created full at its first request *)
BucketOf(ip) ==
    IF ip \in DOMAIN ips THEN ips[ip]
    ELSE [tokens |-> BurstSize, lastRefill |-> now]

(* tryConsume, the refill: tokens + elapsed * rate, at most capacity *)
Refilled(tb) ==
    LET tokens == tb.tokens + (now - tb.lastRefill) * RequestsPerSecond
    IN  [tokens |-> IF tokens > BurstSize THEN BurstSize ELSE tokens,
         lastRefill |-> now]

(* tryConsume, the result: tb.tokens < 1 returns false *)
TryConsume(tb) == ~(Refilled(tb).tokens < 1)

(* the ips map after RateLimit has run for the client *)
AfterRateLimit(ip) ==
    LET tb == Refilled(BucketOf(ip))
        left == IF TryConsume(BucketOf(ip)) THEN [tb EXCEPT !.tokens = @ - 1] ELSE tb
    IN  [c \in DOMAIN ips \cup {ip} |-> IF c = ip THEN left ELSE ips[c]]

(* a request of client ip for a route runs through the middleware in front
   of the route: RateLimit, where it is there, answers 429 and aborts or
   takes a token; then the handler of the route is entered, or the 404
   handler answers an unmatched path *)
ApiRequest(p, ip, route) ==
    /\ pc[p] = "idle"
    /\ LET limited == "RateLimit" \in ChainOf(route) IN
       /\ ips' = IF limited THEN AfterRateLimit(ip) ELSE ips
       /\ IF limited /\ ~TryConsume(BucketOf(ip))
          THEN Finish(p, Answer("too many requests", 429))
          ELSE IF route \notin ApiRoutes
          THEN Finish(p, Answer("404 page not found", 404))
          ELSE /\ req' = [req EXCEPT ![p] =
                             [EmptyReq EXCEPT !.op = route, !.clientIP = ip]]
               /\ pc' = [pc EXCEPT ![p] = "api_handler"]
               /\ resp' = [resp EXCEPT ![p] = NoResp]
    /\ UNCHANGED <<dbVars, chainVars, now, txStale>>

(* the handler of the route runs and answers *)
ApiHandler(p) ==
    /\ pc[p] = "api_handler"
    /\ Finish(p, Answer(req[p].op, 200))
    /\ UNCHANGED <<dbVars, chainVars, now, ips, txStale>>

-----------------------------------------------------------------------------
(* After database.New: two users have been created and funded *)

Init ==
    /\ users = [u \in UserIds |->
                  [pubKey |-> PubKeyOf[u], balance |-> InitialBalance,
                   refId |-> NoRef]]
    /\ investments = {}
    /\ nextInvId = 1
    /\ depositRequests = {}
    /\ withdrawalRequests = {}
    /\ withdrawals = {}
    /\ referralEarnings = {}
    /\ operations = <<>>
    /\ now = 0
    /\ chainIn = {}
    /\ chainOut = <<>>
    /\ txStale = {}
    /\ pc = [p \in AllProcs |-> "idle"]
    /\ req = [p \in AllProcs |-> EmptyReq]
    /\ resp = [p \in AllProcs |-> NoResp]
    /\ ips = <<>>

NextInvest ==
    \/ \E p \in Procs, k \in PubKeys, t \in TypeInputs, a \in AmountInputs :
          HandlerCreateInvestment(p, k, t, a)
    \/ \E p \in Procs : DbCreateInvestmentRead(p)
    \/ \E p \in Procs : DbCreateInvestmentCommit(p)
    \/ \E p \in Procs, k \in PubKeys, i \in 1..2 :
          HandlerDeleteInvestment(p, k, i)
    \/ \E p \in Procs : DbDeleteInvestmentRead(p)
    \/ \E p \in Procs : DbDeleteInvestmentCommit(p)
    \/ Tick(30 * SecondsPerDay)

(* Investment lifecycle: open and close only, two concurrent handlers *)
SpecInvest == Init /\ [][NextInvest]_vars

-----------------------------------------------------------------------------
(* N parallel open(amount = balance) calls on user 1, one call per handler *)

NextRace ==
    \/ \E p \in RaceProcs :
          /\ resp[p].status = "none"
          /\ HandlerCreateInvestment(p, "k1", "low", InitialBalance)
    \/ \E p \in RaceProcs : DbCreateInvestmentRead(p)
    \/ \E p \in RaceProcs : DbCreateInvestmentCommit(p)

SpecRace == Init /\ [][NextRace]_vars

-----------------------------------------------------------------------------
(* Deposit reconciliation alone, one request at a time *)

DepositMemos == {d.memo : d \in depositRequests}

Transport == {"ok", "scan fails", "transfer fails"}

NextDeposit ==
    \/ \E p \in SeqProcs, k \in PubKeys, a \in DepositInputs :
          HandlerCreateDeposit(p, k, a)
    \/ \E p \in SeqProcs : DbCreateDepositRequest(p)
    \/ \E m \in DepositMemos, a \in DepositInputs \ {0} : ChainPayment(m, a)
    \/ \E p \in SeqProcs, k \in PubKeys, i \in 1..(MaxDeposits + 1) :
          HandlerConfirmDeposit(p, k, i)
    \/ \E p \in SeqProcs : ConfirmDepositGet(p)
    \/ \E p \in SeqProcs, t \in Transport : ConfirmDepositCheck(p, t)
    \/ \E p \in SeqProcs : ConfirmDepositStatus(p)
    \/ \E p \in SeqProcs : ConfirmDepositBalance(p)
    \/ \E t \in Instants : Tick(t)

SpecDeposit == Init /\ [][NextDeposit]_vars

-----------------------------------------------------------------------------
(* The whole ledger, one request at a time *)

LedgerKeys == {"k1"}

LedgerUsers == {1}

NextLedger ==
    \/ \E p \in SeqProcs, k \in LedgerKeys :
          HandlerCreateInvestment(p, k, "low", InitialBalance)
    \/ \E p \in SeqProcs : DbCreateInvestmentRead(p)
    \/ \E p \in SeqProcs : DbCreateInvestmentCommit(p)
    \/ \E p \in SeqProcs, k \in LedgerKeys, i \in 1..2 :
          HandlerDeleteInvestment(p, k, i)
    \/ \E p \in SeqProcs : DbDeleteInvestmentRead(p)
    \/ \E p \in SeqProcs : DbDeleteInvestmentCommit(p)
    \/ \E p \in SeqProcs, u \in LedgerUsers, b \in BalanceInputs :
          HandlerUpdateUserBalance(p, u, b)
    \/ \E p \in SeqProcs, k \in LedgerKeys, a \in DepositInputs :
          HandlerCreateDeposit(p, k, a)
    \/ \E p \in SeqProcs : DbCreateDepositRequest(p)
    \/ \E m \in DepositMemos, a \in DepositInputs \ {0} : ChainPayment(m, a)
    \/ \E p \in SeqProcs, k \in LedgerKeys, i \in 1..MaxDeposits :
          HandlerConfirmDeposit(p, k, i)
    \/ \E p \in SeqProcs : ConfirmDepositGet(p)
    \/ \E p \in SeqProcs, t \in Transport : ConfirmDepositCheck(p, t)
    \/ \E p \in SeqProcs : ConfirmDepositStatus(p)
    \/ \E p \in SeqProcs : ConfirmDepositBalance(p)
    \/ \E p \in SeqProcs, k \in LedgerKeys, a \in WithdrawInputs :
          HandlerWithdrawFunds(p, k, a)
    \/ \E p \in SeqProcs : WithdrawDeposits(p)
    \/ \E p \in SeqProcs : WithdrawHistory(p)
    \/ \E p \in SeqProcs : WithdrawInsert(p)
    \/ \E p \in SeqProcs : WithdrawConfirm(p)
    \/ \E p \in SeqProcs, t \in {"ok", "transfer fails"} : WithdrawSend(p, t)
    \/ \E p \in SeqProcs : WithdrawStoreHash(p)
    \/ \E p \in SeqProcs : WithdrawBalance(p)
    \/ \E p \in SeqProcs : WithdrawOperation(p)

SpecLedger == Init /\ [][NextLedger]_vars

-----------------------------------------------------------------------------
(* Users and referral earnings, one request at a time, from an empty store *)

InitReferral ==
    /\ users = <<>>
    /\ investments = {}
    /\ nextInvId = 1
    /\ depositRequests = {}
    /\ withdrawalRequests = {}
    /\ withdrawals = {}
    /\ referralEarnings = {}
    /\ operations = <<>>
    /\ now = 0
    /\ chainIn = {}
    /\ chainOut = <<>>
    /\ txStale = {}
    /\ pc = [p \in AllProcs |-> "idle"]
    /\ req = [p \in AllProcs |-> EmptyReq]
    /\ resp = [p \in AllProcs |-> NoResp]
    /\ ips = <<>>

(* ref_id inputs: none, the new user itself, or the next id (which may not
   exist, and closes a cycle from the last id to the first) *)
RefInputs(u) == {NoRef, u, (u % Cardinality(ReferralIds)) + 1}

NextReferral ==
    \/ \E p \in SeqProcs, u \in ReferralIds :
          \E r \in RefInputs(u) : HandlerCreateUser(p, PubKeyOf[u], r, u)
    \/ \E p \in SeqProcs : DbCreateUserInsert(p)
    \/ \E p \in SeqProcs, u \in ReferralIds : HandlerDeleteUser(p, u)
    \/ \E p \in SeqProcs, u \in ReferralIds, a \in ProfitInputs :
          /\ \A e \in referralEarnings : e.referredId # u
          /\ ProcessReferralEarnings(p, u, a)
    \/ \E p \in SeqProcs : ReferrerChainRead(p)
    \/ \E p \in SeqProcs : AddReferralEarning(p)

SpecReferral == InitReferral /\ [][NextReferral]_vars

(* the goroutine that runs ProcessReferralEarnings is scheduled until the
   function returns *)
FairReferral ==
    \A p \in SeqProcs :
        WF_vars(ReferrerChainRead(p)) /\ WF_vars(AddReferralEarning(p))

SpecReferralFair == SpecReferral /\ FairReferral

-----------------------------------------------------------------------------
(* The operation history: handler p1 opens investments, both handlers read
   pages of user 1's operations *)

HistoryAmount == 10

NextHistory ==
    \/ \E p \in SeqProcs : HandlerCreateInvestment(p, "k1", "low", HistoryAmount)
    \/ \E p \in SeqProcs : DbCreateInvestmentRead(p)
    \/ \E p \in SeqProcs : DbCreateInvestmentCommit(p)
    \/ \E p \in Procs, k \in PubKeys, n \in PageInputs, z \in PageSizeInputs :
          HandlerGetUserOperations(p, k, n, z)
    \/ \E p \in Procs : DbGetUserOperationsCount(p)
    \/ \E p \in Procs : DbGetUserOperationsSelect(p)
    \/ Tick(1)

SpecHistory == Init /\ [][NextHistory]_vars

-----------------------------------------------------------------------------
(* open and close with a store whose statements may fail, two handlers *)

OpenAmounts == {10, 100}

NextOpen ==
    \/ \E p \in Procs, k \in PubKeys, a \in OpenAmounts :
          HandlerCreateInvestment(p, k, "low", a)
    \/ \E p \in Procs : DbCreateInvestmentRead(p)
    \/ \E p \in Procs : DbCreateInvestmentCommit(p)
    \/ \E p \in Procs, k \in DOMAIN OpenStatements : DbCreateInvestmentFail(p, k)

SpecOpen == Init /\ [][NextOpen]_vars

-----------------------------------------------------------------------------
(* Deposit reconciliation with two concurrent handlers and a store whose
   statements may fail *)

ConfirmAmount == 1000

NextConfirm ==
    \/ \E p \in SeqProcs, k \in PubKeys : HandlerCreateDeposit(p, k, ConfirmAmount)
    \/ \E p \in SeqProcs : DbCreateDepositRequest(p)
    \/ \E m \in DepositMemos : ChainPayment(m, ConfirmAmount)
    \/ \E p \in Procs, k \in PubKeys, i \in 1..MaxDeposits :
          /\ Len(chainOut) < MaxTransfers
          /\ HandlerConfirmDeposit(p, k, i)
    \/ \E p \in Procs : ConfirmDepositGet(p)
    \/ \E p \in Procs, t \in Transport : ConfirmDepositCheck(p, t)
    \/ \E p \in Procs : ConfirmDepositStatus(p)
    \/ \E p \in Procs : ConfirmDepositStatusFails(p)
    \/ \E p \in Procs : ConfirmDepositBalance(p)
    \/ \E p \in Procs : ConfirmDepositBalanceFails(p)

SpecConfirm == Init /\ [][NextConfirm]_vars

-----------------------------------------------------------------------------
(* Deposits and withdrawals of both users, one request at a time *)

NextWithdraw ==
    \/ \E p \in SeqProcs, k \in PubKeys : HandlerCreateDeposit(p, k, ConfirmAmount)
    \/ \E p \in SeqProcs : DbCreateDepositRequest(p)
    \/ \E m \in DepositMemos : ChainPayment(m, ConfirmAmount)
    \/ \E p \in SeqProcs, k \in PubKeys, i \in 1..MaxDeposits :
          HandlerConfirmDeposit(p, k, i)
    \/ \E p \in SeqProcs : ConfirmDepositGet(p)
    \/ \E p \in SeqProcs : ConfirmDepositCheck(p, "ok")
    \/ \E p \in SeqProcs : ConfirmDepositStatus(p)
    \/ \E p \in SeqProcs : ConfirmDepositBalance(p)
    \/ \E p \in SeqProcs, k \in PubKeys, a \in WithdrawInputs :
          HandlerWithdrawFunds(p, k, a)
    \/ \E p \in SeqProcs : WithdrawDeposits(p)
    \/ \E p \in SeqProcs : WithdrawHistory(p)
    \/ \E p \in SeqProcs : WithdrawInsert(p)
    \/ \E p \in SeqProcs : WithdrawConfirm(p)
    \/ \E p \in SeqProcs, t \in {"ok", "transfer fails"} : WithdrawSend(p, t)
    \/ \E p \in SeqProcs : WithdrawStoreHash(p)
    \/ \E p \in SeqProcs : WithdrawBalance(p)
    \/ \E p \in SeqProcs : WithdrawOperation(p)

SpecWithdraw == Init /\ [][NextWithdraw]_vars

-----------------------------------------------------------------------------
(* open, confirm and withdraw calls of user 1 served by two concurrent
   handlers; the store and the transport do not fail *)

MixedAmount == 10

NextMixed ==
    \/ \E p \in SeqProcs : HandlerCreateDeposit(p, "k1", ConfirmAmount)
    \/ \E p \in SeqProcs : DbCreateDepositRequest(p)
    \/ \E m \in DepositMemos : ChainPayment(m, ConfirmAmount)
    \/ \E p \in Procs, i \in 1..MaxDeposits :
          /\ Len(chainOut) < MaxTransfers
          /\ HandlerConfirmDeposit(p, "k1", i)
    \/ \E p \in Procs : ConfirmDepositGet(p)
    \/ \E p \in Procs : ConfirmDepositCheck(p, "ok")
    \/ \E p \in Procs : ConfirmDepositStatus(p)
    \/ \E p \in Procs : ConfirmDepositBalance(p)
    \/ \E p \in Procs : HandlerCreateInvestment(p, "k1", "low", MixedAmount)
    \/ \E p \in Procs : DbCreateInvestmentRead(p)
    \/ \E p \in Procs : DbCreateInvestmentCommit(p)
    \/ \E p \in Procs, a \in WithdrawInputs : HandlerWithdrawFunds(p, "k1", a)
    \/ \E p \in Procs : WithdrawDeposits(p)
    \/ \E p \in Procs : WithdrawHistory(p)
    \/ \E p \in Procs : WithdrawInsert(p)
    \/ \E p \in Procs : WithdrawConfirm(p)
    \/ \E p \in Procs : WithdrawSend(p, "ok")
    \/ \E p \in Procs : WithdrawStoreHash(p)
    \/ \E p \in Procs : WithdrawBalance(p)
    \/ \E p \in Procs : WithdrawOperation(p)

SpecMixed == Init /\ [][NextMixed]_vars

-----------------------------------------------------------------------------
(* createUser calls served by two concurrent handlers, on the store of two
   funded users: registered and new pub_keys, free and taken ids *)

NewKeys == {"k1", "k3"}

NewIds == {1, 3, 4}

NewRefs == {NoRef, 2}

NextUsers ==
    \/ \E p \in Procs, k \in NewKeys, r \in NewRefs, i \in NewIds :
          HandlerCreateUser(p, k, r, i)
    \/ \E p \in Procs : DbCreateUserInsert(p)

SpecUsers == Init /\ [][NextUsers]_vars

-----------------------------------------------------------------------------
(* The admin routes called with and without the admin key by two concurrent
   clients, while handler p1 opens investments *)

ApiKeyInputs == {"", "guess", AdminAPIKey}

AdminBalances == {0, 50}

NextAdmin ==
    \/ \E p \in Procs, op \in {"setBalance", "deleteUser"}, k \in ApiKeyInputs,
          u \in UserIds, b \in AdminBalances : AdminRequest(p, op, k, u, b)
    \/ \E p \in Procs : AdminAuth(p)
    \/ \E p \in Procs : AdminNext(p)
    \/ \E p \in SeqProcs : HandlerCreateInvestment(p, "k1", "low", MixedAmount)
    \/ \E p \in SeqProcs : DbCreateInvestmentRead(p)
    \/ \E p \in SeqProcs : DbCreateInvestmentCommit(p)

SpecAdmin == Init /\ [][NextAdmin]_vars

-----------------------------------------------------------------------------
(* Deposits and withdrawals of both users, one request at a time, with an
   operations table whose INSERT may fail *)

NextPayout ==
    \/ NextWithdraw
    \/ \E p \in SeqProcs : WithdrawOperationFails(p)

SpecPayout == Init /\ [][NextPayout]_vars

-----------------------------------------------------------------------------
(* Users and referral earnings with a store whose statements may fail *)

NextHops ==
    \/ NextReferral
    \/ \E p \in SeqProcs, k \in DOMAIN EarningStatements :
          AddReferralEarningFails(p, k)

SpecHops == InitReferral /\ [][NextHops]_vars

-----------------------------------------------------------------------------
(* Requests of two clients for API routes and for unmatched paths *)

ClientIPs == {"10.0.0.1", "10.0.0.2"}

RouteInputs == {"createUser", "withdraw", "no such path"}

NextApi ==
    \/ \E p \in Procs, ip \in ClientIPs, r \in RouteInputs : ApiRequest(p, ip, r)
    \/ \E p \in Procs : ApiHandler(p)
    \/ Tick(1)

SpecApi == Init /\ [][NextApi]_vars

-----------------------------------------------------------------------------
(* open, close, createIntent, confirm and withdraw calls of user 1 with
   positive amounts, served by two concurrent handlers *)

SolventAmount == 300

NextSolvent ==
    \/ \E p \in SeqProcs : HandlerCreateDeposit(p, "k1", ConfirmAmount)
    \/ \E p \in SeqProcs : DbCreateDepositRequest(p)
    \/ \E m \in DepositMemos : ChainPayment(m, ConfirmAmount)
    \/ \E p \in Procs :
          /\ Len(chainOut) < MaxTransfers
          /\ HandlerConfirmDeposit(p, "k1", 1)
    \/ \E p \in Procs : ConfirmDepositGet(p)
    \/ \E p \in Procs : ConfirmDepositCheck(p, "ok")
    \/ \E p \in Procs : ConfirmDepositStatus(p)
    \/ \E p \in Procs : ConfirmDepositBalance(p)
    \/ \E p \in Procs : HandlerCreateInvestment(p, "k1", "low", InitialBalance)
    \/ \E p \in Procs : DbCreateInvestmentRead(p)
    \/ \E p \in Procs : DbCreateInvestmentCommit(p)
    \/ \E p \in SeqProcs : HandlerDeleteInvestment(p, "k1", 1)
    \/ \E p \in SeqProcs : DbDeleteInvestmentRead(p)
    \/ \E p \in SeqProcs : DbDeleteInvestmentCommit(p)
    \/ \E p \in Procs : HandlerWithdrawFunds(p, "k1", SolventAmount)
    \/ \E p \in Procs : WithdrawDeposits(p)
    \/ \E p \in Procs : WithdrawHistory(p)
    \/ \E p \in Procs : WithdrawInsert(p)
    \/ \E p \in Procs : WithdrawConfirm(p)
    \/ \E p \in Procs : WithdrawSend(p, "ok")
    \/ \E p \in Procs : WithdrawStoreHash(p)
    \/ \E p \in Procs : WithdrawBalance(p)
    \/ \E p \in Procs : WithdrawOperation(p)

SpecSolvent == Init /\ [][NextSolvent]_vars

-----------------------------------------------------------------------------
(* Concurrent withdraw calls of user 1 once its deposit has been credited *)

NextDrain ==
    \/ \E p \in SeqProcs : HandlerCreateDeposit(p, "k1", ConfirmAmount)
    \/ \E p \in SeqProcs : DbCreateDepositRequest(p)
    \/ \E m \in DepositMemos : ChainPayment(m, ConfirmAmount)
    \/ \E p \in SeqProcs :
          /\ Len(chainOut) < MaxTransfers
          /\ HandlerConfirmDeposit(p, "k1", 1)
    \/ \E p \in SeqProcs : ConfirmDepositGet(p)
    \/ \E p \in SeqProcs : ConfirmDepositCheck(p, "ok")
    \/ \E p \in SeqProcs : ConfirmDepositStatus(p)
    \/ \E p \in SeqProcs : ConfirmDepositBalance(p)
    \/ \E p \in Procs, a \in WithdrawInputs :
          /\ users[1].balance >= InitialBalance + ConfirmAmount
          /\ HandlerWithdrawFunds(p, "k1", a)
    \/ \E p \in Procs : WithdrawDeposits(p)
    \/ \E p \in Procs : WithdrawHistory(p)
    \/ \E p \in Procs : WithdrawInsert(p)
    \/ \E p \in Procs : WithdrawConfirm(p)
    \/ \E p \in Procs, t \in {"ok", "transfer fails"} : WithdrawSend(p, t)
    \/ \E p \in Procs : WithdrawStoreHash(p)
    \/ \E p \in Procs : WithdrawBalance(p)
    \/ \E p \in Procs : WithdrawOperation(p)

SpecDrain == Init /\ [][NextDrain]_vars

-----------------------------------------------------------------------------
(* User 1 pays and confirms its first deposit, creates further intents and
   withdraws; the clients retry and the chain accepts every transfer *)

(* the payment of the first intent arrives *)
FirstPayment ==
    \E d \in depositRequests : d.id = 1 /\ ChainPayment(d.memo, ConfirmAmount)

(* the client asks to confirm an intent of user 1 that is still pending *)
ConfirmPending(p) ==
    \E d \in depositRequests :
        /\ d.userId = 1
        /\ d.status = "pending"
        /\ HandlerConfirmDeposit(p, "k1", d.id)

(* Handler.ConfirmDeposit runs to its answer *)
ConfirmSteps(p) ==
    \/ ConfirmDepositGet(p)
    \/ ConfirmDepositCheck(p, "ok")
    \/ ConfirmDepositStatus(p)
    \/ ConfirmDepositBalance(p)

(* Handler.WithdrawFunds runs to its answer *)
WithdrawSteps(p) ==
    \/ WithdrawDeposits(p)
    \/ WithdrawHistory(p)
    \/ WithdrawInsert(p)
    \/ WithdrawConfirm(p)
    \/ WithdrawSend(p, "ok")
    \/ WithdrawStoreHash(p)
    \/ WithdrawBalance(p)
    \/ WithdrawOperation(p)

NextPending ==
    \/ HandlerCreateDeposit("p1", "k1", ConfirmAmount)
    \/ DbCreateDepositRequest("p1")
    \/ Tick(1)
    \/ FirstPayment
    \/ ConfirmPending("p1")
    \/ ConfirmSteps("p1")
    \/ HandlerWithdrawFunds("p2", "k1", SolventAmount)
    \/ WithdrawSteps("p2")

(* a started handler runs until it has answered, and the clients repeat the
   confirm of a pending intent and the withdraw call *)
FairPending ==
    /\ WF_vars(ConfirmPending("p1"))
    /\ WF_vars(ConfirmSteps("p1"))
    /\ WF_vars(HandlerWithdrawFunds("p2", "k1", SolventAmount))
    /\ WF_vars(WithdrawSteps("p2"))

SpecPending == Init /\ [][NextPending]_vars /\ FairPending

-----------------------------------------------------------------------------
(* One investment of user 1, and one close call of it from each of two
   concurrent handlers, sent while the investment is there *)

NextClose ==
    \/ \E t \in TypeInputs, a \in AmountInputs :
          /\ nextInvId = 1
          /\ HandlerCreateInvestment("p3", "k1", t, a)
    \/ DbCreateInvestmentRead("p3")
    \/ DbCreateInvestmentCommit("p3")
    \/ \E p \in Procs :
          /\ resp[p].status = "none"
          /\ InvestmentOf(1, 1) # {}
          /\ HandlerDeleteInvestment(p, "k1", 1)
    \/ \E p \in Procs : DbDeleteInvestmentRead(p)
    \/ \E p \in Procs : DbDeleteInvestmentCommit(p)
    \/ Tick(30 * SecondsPerDay)

SpecClose == Init /\ [][NextClose]_vars

-----------------------------------------------------------------------------
(* Claims on the investment lifecycle *)

InvestmentsOfUser(u) == {i \in investments : i.userId = u}

Succeeded(p) == resp[p].status = "investment created successfully"

(* C1: conservation.  Under open and close calls only, every user's balance
   is its initial balance minus the principals of the opens that succeeded
   plus the principals of the closes that succeeded (the operation log holds
   one row per success), and the principals of the investments still open
   sum to initial balance minus current balance.  A failed call appends no
   row, so it can change neither. *)
C1_Conservation ==
    \A u \in DOMAIN users :
        /\ users[u].balance =
              InitialBalance - SumSeqAmount(OpsOf(u, "investment_created"))
                             + SumSeqAmount(OpsOf(u, "investment_closed"))
        /\ SumAmount(InvestmentsOfUser(u)) = InitialBalance - users[u].balance

C1_Witness ==
    \E u \in DOMAIN users :
        /\ Len(OpsOf(u, "investment_created")) = 2
        /\ Len(OpsOf(u, "investment_closed")) = 1
        /\ InvestmentsOfUser(u) # {}
        /\ \E p \in Procs : resp[p].status = "insufficient balance"

(* C2: of N parallel open(amount = balance) calls on one user exactly one
   succeeds; the balance is never negative and ends at 0. *)
C2_ExactlyOneOpenWins ==
    /\ \A u \in DOMAIN users : users[u].balance >= 0
    /\ Cardinality({p \in RaceProcs : Succeeded(p)}) <= 1
    /\ (\A p \in RaceProcs : pc[p] = "idle" /\ resp[p].status # "none")
          => /\ Cardinality({p \in RaceProcs : Succeeded(p)}) = 1
             /\ users[1].balance = 0

C2_Witness ==
    /\ \A p \in RaceProcs : pc[p] = "idle" /\ resp[p].status # "none"
    /\ \E p \in RaceProcs : Succeeded(p)
    /\ \E p \in RaceProcs : resp[p].status = "database is locked"
    /\ \E p \in RaceProcs : resp[p].status = "insufficient balance"

BelowMinimum(r) ==
    /\ r.op = "open"
    /\ r.type \in DOMAIN InvestmentTypes
    /\ 0 < r.amount
    /\ r.amount < InvestmentTypes[r.type].minAmount

(* C9: an open with a known type and 0 < amount < min_amount of the type
   changes no balance, investment or operation, and is answered
   BelowMinimum. *)
C9_BelowMinimumRejected ==
    [][\A p \in Procs :
          (BelowMinimum(req[p]) /\ pc'[p] # pc[p])
             => /\ users' = users
                /\ investments' = investments
                /\ operations' = operations
                /\ (pc'[p] = "idle" => resp'[p].status = "amount below minimum")]_vars

LockSeconds(type) == InvestmentTypes[type].lockPeriod * SecondsPerDay

(* C10: lock rule.  An investment of a type with lock_period_days = L > 0
   is not closed before L days have passed since its creation. *)
C10_LockRule ==
    [][\A i \in investments :
          (i \notin investments' /\ InvestmentTypes[i.type].lockPeriod > 0)
             => now - i.createdAt >= LockSeconds(i.type)]_vars

-----------------------------------------------------------------------------
(* Claims on balances, deposits and withdrawals *)

(* C3: after every committed mutation every user's balance is >= 0. *)
C3_BalanceNonNegative ==
    \A u \in DOMAIN users : users[u].balance >= 0

CompletedDeposits(u) ==
    {d \in depositRequests : d.userId = u /\ d.status = "completed"}

(* a confirm has marked the request completed and not yet stored the balance *)
BeingCredited(d) ==
    \E p \in SeqProcs : pc[p] = "cd_balance" /\ req[p].id = d.id

C4_CreditedOnce ==
    \A u \in DOMAIN users :
        users[u].balance =
            InitialBalance
              + SumAmount({d \in CompletedDeposits(u) : ~BeingCredited(d)})

C4_FurtherConfirmRejected ==
    \A p \in SeqProcs :
        (/\ pc[p] = "cd_get"
         /\ pc'[p] # "cd_get"
         /\ \E d \in CompletedDeposits(req[p].uid) : d.id = req[p].id)
           => /\ resp'[p].status = "deposit request is not pending"
              /\ pc'[p] = "idle"
              /\ UNCHANGED <<dbVars, chainVars>>

(* C4: deposit idempotence.  Over confirm calls served one after another, a
   confirm on a completed request is answered "deposit request is not
   pending" and changes nothing, and a user's balance holds the amount of
   each of its completed requests exactly once. *)
C4_DepositIdempotence ==
    []C4_CreditedOnce /\ [][C4_FurtherConfirmRejected]_vars

C4_Witness ==
    /\ \E p \in SeqProcs : resp[p].status = "deposit request is not pending"
    /\ \E d \in CompletedDeposits(1) :
          users[1].balance = InitialBalance + d.amount

SentTo(k) ==
    SelectSeq(chainOut, LAMBDA t : t.kind = "withdrawal" /\ t.to = k)

(* C5: withdrawal ceiling.  A withdraw's transfer is sent only if its amount
   is at most 0.8 * (the user's completed deposits) minus the amounts already
   withdrawn, and at most the current balance. *)
C5_WithdrawalCeiling ==
    [][\A p \in SeqProcs :
          (pc[p] = "wf_send" /\ pc'[p] = "wf_hash")
             => /\ 100 * req[p].amount <=
                      (100 - FeePercent) * SumAmount(CompletedDeposits(req[p].uid))
                        - 100 * SumSeqAmount(SentTo(req[p].pubKey))
                /\ req[p].amount <= users[req[p].uid].balance]_vars

OperationTypeOf(op) ==
    CASE op = "open"     -> "investment_created"
      [] op = "close"    -> "investment_closed"
      [] op = "confirm"  -> "deposit"
      [] op = "withdraw" -> "withdrawal"
      [] OTHER           -> "none"

(* C7: audit completeness.  The step in which an open, close, confirm or
   withdraw call answers success leaves exactly one more Operation row than
   the call found, of the call's type and for the acting user. *)
C7_AuditCompleteness ==
    [][\A p \in SeqProcs :
          (/\ pc[p] # "idle"
           /\ pc'[p] = "idle"
           /\ resp'[p].code \in {200, 201}
           /\ OperationTypeOf(req[p].op) # "none")
             => /\ Len(operations') = Len(operations) + 1
                /\ operations'[Len(operations')].type = OperationTypeOf(req[p].op)
                /\ operations'[Len(operations')].userId = req[p].uid]_vars

-----------------------------------------------------------------------------
(* Claims on the referral cascade *)

(* the referring users above u, nearest first, at most n of them *)
RECURSIVE ReferrerChain(_, _)
ReferrerChain(u, n) ==
    IF n = 0 \/ u \notin DOMAIN users THEN <<>>
    ELSE IF users[u].refId \notin DOMAIN users THEN <<>>
    ELSE <<users[u].refId>> \o ReferrerChain(users[u].refId, n - 1)

EarningsFrom(rows, referred) == {e \in rows : e.referredId = referred}

(* C6: referral cascade.  When distribute(D, P) returns, the earnings with
   referred = D are exactly one row per level k of D's referrer chain (at
   most three levels), naming the level-k referrer with amount
   P * levelK_percent / 100, and none beyond the depth of the chain; every
   step of the call raises each user's balance by the amounts of the rows the
   step added for that user. *)
C6_ReferralCascade ==
    [][\A p \in SeqProcs :
          req[p].op = "distribute" =>
             /\ \A r \in DOMAIN users :
                   users'[r].balance - users[r].balance =
                      SumAmount({e \in referralEarnings' \ referralEarnings :
                                    e.referrerId = r})
             /\ pc'[p] = "idle" =>
                   LET D == req[p].uid
                       chain == ReferrerChain(D, MaxHops)
                       rows == EarningsFrom(referralEarnings', D)
                   IN  /\ Cardinality(rows) = Len(chain)
                       /\ {<<e.level, e.referrerId, e.amount>> : e \in rows} =
                             {<<k, chain[k], (req[p].amount * LevelPercent(k)) \div 100>> :
                                 k \in 1..Len(chain)}]_vars

-----------------------------------------------------------------------------
(* Claims on the operation history *)

Listing(p) == resp[p].status = "operations"

(* the answer of p is a page of user u's log as it is now *)
ListingOf(p, u) ==
    /\ Listing(p)
    /\ resp[p].data.total = Cardinality(OperationIds(u))
    /\ \A i \in 1..Len(resp[p].data.operations) :
          resp[p].data.operations[i] \in OperationIds(u)

PageLength(total, page, pageSize) ==
    IF total > (page - 1) * pageSize
    THEN Min(pageSize, total - (page - 1) * pageSize)
    ELSE 0

(* C8: pagination.  A page holds min(s, N - (p-1)*s) operations of the user in
   descending creation-time order with total = N, and two different pages of
   the same size read from the same log share no operation, also when
   operations carry the same creation timestamp. *)
C8_Pagination ==
    \A p, q \in Procs :
        (ListingOf(p, 1) /\ ListingOf(q, 1)) =>
            LET a == resp[p].data
                b == resp[q].data
            IN  /\ Len(a.operations) = PageLength(a.total, a.page, a.pageSize)
                /\ \A i, j \in 1..Len(a.operations) :
                      i < j => operations[a.operations[i]].createdAt
                                  >= operations[a.operations[j]].createdAt
                /\ (a.pageSize = b.pageSize /\ a.page # b.page) =>
                      \A i \in 1..Len(a.operations), j \in 1..Len(b.operations) :
                          a.operations[i] # b.operations[j]

-----------------------------------------------------------------------------
(* Claims on the atomicity of open *)

OpenFailed(p) ==
    /\ req[p].op = "open"
    /\ pc[p] # "idle"
    /\ pc'[p] = "idle"
    /\ resp'[p].code # 201

C11_AllOrNothing ==
    \A u \in DOMAIN users :
        /\ users[u].balance = InitialBalance - SumAmount(InvestmentsOfUser(u))
        /\ Cardinality(InvestmentsOfUser(u)) = Len(OpsOf(u, "investment_created"))
        /\ SumAmount(InvestmentsOfUser(u)) =
              SumSeqAmount(OpsOf(u, "investment_created"))

(* C11: open is one atomic unit.  In every state the debits, the investment
   rows and the investment_created operations of the opens agree (each open
   has left all three or none), and the step in which an open fails, whether
   on the balance check or on a failing statement of the transaction, leaves
   balances, investments and operations as they were. *)
C11_OpenAtomic ==
    /\ []C11_AllOrNothing
    /\ [][\A p \in Procs :
             OpenFailed(p) => UNCHANGED <<users, investments, operations>>]_vars

C11_Witness ==
    /\ \E p \in Procs : resp[p].status = "INSERT operations failed"
    /\ \E p \in Procs : resp[p].status = "investment created successfully"
    /\ investments # {}

-----------------------------------------------------------------------------
(* Claims on the answers of open and close *)

(* C12: a successful open returns as remaining balance the balance stored
   for the user right after the open's commit. *)
C12_RemainingIsStored ==
    [][\A p \in Procs :
          (req[p].op = "open" /\ pc'[p] = "idle" /\ resp'[p].code = 201)
             => resp'[p].remaining = users'[req[p].uid].balance]_vars

(* the close of p finds no investment with its id owned by its user *)
NothingToClose(p) ==
    /\ pc[p] = "di_begin"
    /\ ~\E i \in investments : i.id = req[p].id /\ i.userId = req[p].uid

(* C13: a close that finds no investment with that id owned by that user
   answers "investment not found" and changes no table; and whenever an
   investment row disappears, a close of its owner for that id removed it and
   the owner, nobody else, is credited its principal. *)
C13_CloseNotFound ==
    [][/\ \A p \in Procs :
            (NothingToClose(p) /\ pc'[p] # pc[p])
               => /\ pc'[p] = "idle"
                  /\ resp'[p].status = "investment not found"
                  /\ resp'[p].code # 200
                  /\ UNCHANGED dbVars
       /\ \A i \in investments \ investments' :
            /\ \E p \in Procs : /\ req[p].op = "close"
                                /\ req[p].uid = i.userId
                                /\ req[p].id = i.id
            /\ \A u \in DOMAIN users :
                  users'[u].balance =
                     users[u].balance + (IF u = i.userId THEN i.amount ELSE 0)]_vars

(* a close was refused while user 1 held the investments 1 and 2 and user 2
   held none *)
C13_Witness ==
    /\ \E p \in Procs : resp[p].status = "investment not found"
    /\ {i.id : i \in InvestmentsOfUser(1)} = {1, 2}
    /\ InvestmentsOfUser(2) = {}

-----------------------------------------------------------------------------
(* Claims on deposit confirmation *)

(* C14: deposit confirmation is atomic.  Whenever no handler is at work, also
   after a confirm has failed between its two store writes, a user's balance
   holds the amounts of exactly its completed deposit requests: a request is
   completed if and only if it has been credited. *)
C14_CompletedIffCredited ==
    (\A p \in Procs : pc[p] = "idle") =>
        \A u \in DOMAIN users :
            users[u].balance = InitialBalance + SumAmount(CompletedDeposits(u))

StatusStep(d, e) ==
    \/ e.status = d.status
    \/ /\ d.status = "pending"
       /\ e.status = "completed"
       /\ \E p \in Procs : /\ req[p].op = "confirm"
                           /\ pc[p] = "cd_status"
                           /\ req[p].id = d.id

(* C15: deposit status machine.  A request is created pending; its status
   changes only from pending to completed, in the status update of a confirm
   on that request; a completed request stays completed; no request is ever
   failed. *)
C15_StatusMachine ==
    /\ [](\A d \in depositRequests : d.status \in {"pending", "completed"})
    /\ [][/\ \A d \in depositRequests :
               \E e \in depositRequests' : e.id = d.id /\ StatusStep(d, e)
          /\ \A e \in depositRequests' :
               (\A d \in depositRequests : d.id # e.id) => e.status = "pending"]_vars

C15_Witness ==
    /\ \E d \in depositRequests : d.status = "completed"
    /\ \E d \in depositRequests : d.status = "pending"
    /\ \E p \in Procs : resp[p].status = "deposit request is not pending"

Rejections ==
    {"deposit request not found", "deposit request does not belong to user",
     "deposit request is not pending", "payment not received",
     "failed to check transaction"}

(* the confirm of p is past the checks: the request it works on is its user's *)
PastChecks(p) == pc[p] \in {"cd_check", "cd_status", "cd_balance"}

C16_OwnDepositOnly ==
    \A p \in Procs :
        PastChecks(p) =>
            \E d \in depositRequests : d.id = req[p].id /\ d.userId = req[p].uid

C16_RejectedStep(p) ==
    /\ (pc[p] \in {"cd_get", "cd_check"} /\ pc'[p] # pc[p])
          => UNCHANGED <<depositRequests, users>>
    /\ (pc[p] \in {"cd_status", "cd_balance"} /\ pc'[p] = "idle")
          => resp'[p].status \notin Rejections
    /\ (pc[p] = "cd_balance" /\ pc'[p] = "idle")
          => \A u \in DOMAIN users :
                users'[u].balance # users[u].balance => u = req[p].uid

(* C16: a rejected confirm changes nothing.  The steps of a confirm up to and
   including its checks write neither a status nor a balance, a confirm that
   has begun to write never answers with a rejection, and a confirm gets past
   its checks only on a request of its own user and credits only that user. *)
C16_RejectedConfirm ==
    /\ []C16_OwnDepositOnly
    /\ [][\A p \in Procs : C16_RejectedStep(p)]_vars

(* user 2 was refused user 1's request, which is still pending *)
C16_Witness ==
    /\ \E p \in Procs : resp[p].status = "deposit request does not belong to user"
    /\ \E p \in Procs : resp[p].status = "payment not received"
    /\ \A d \in depositRequests : d.userId = 1 /\ d.status = "pending"
    /\ depositRequests # {}
    /\ \A u \in DOMAIN users : users[u].balance = InitialBalance

(* C17: memo uniqueness.  Any two distinct deposit requests carry distinct
   memo tokens, also two intents of one user created in the same second. *)
C17_MemoUnique ==
    \A d, e \in depositRequests : d.id # e.id => d.memo # e.memo

-----------------------------------------------------------------------------
(* Claims on the gates and records of withdraw *)

PendingDeposits(u) ==
    {d \in depositRequests : d.userId = u /\ d.status # "completed"}

(* C18: pending-deposit gate.  A withdraw whose user has a deposit request
   that is not completed answers "user has uncompleted deposits" at its
   first look at the store, whatever the amount, and sends no transfer,
   creates no withdrawal record and leaves every balance as it is. *)
C18_PendingDepositGate ==
    [][\A p \in SeqProcs :
          (/\ pc[p] = "wf_deposits"
           /\ pc'[p] # "wf_deposits"
           /\ PendingDeposits(req[p].uid) # {})
             => /\ pc'[p] = "idle"
                /\ resp'[p].status = "user has uncompleted deposits"
                /\ resp'[p].code # 200
                /\ UNCHANGED <<users, withdrawalRequests, withdrawals, chainOut>>]_vars

C18_Witness ==
    /\ \E p \in SeqProcs : resp[p].status = "user has uncompleted deposits"
    /\ PendingDeposits(2) # {}
    /\ withdrawalRequests = {}
    /\ chainOut = <<>>

PendingWithdrawals(u) ==
    {w \in withdrawalRequests : w.userId = u /\ w.status # "completed"}

(* C19: pending-withdrawal gate.  A withdraw whose user has a withdrawal
   record of an earlier call that is not completed gets no further than the
   check of the withdrawal history: it answers "user has uncompleted
   withdrawals" and sends no transfer. *)
C19_PendingWithdrawalGate ==
    [][\A p \in SeqProcs :
          (/\ pc[p] = "wf_history"
           /\ pc'[p] # "wf_history"
           /\ PendingWithdrawals(req[p].uid) # {})
             => /\ pc'[p] = "idle"
                /\ resp'[p].status = "user has uncompleted withdrawals"
                /\ UNCHANGED chainOut]_vars

(* C20: whenever no handler is at work, a withdrawal record that is
   completed has had its transfer sent: the main wallet has sent the record's
   amount to the record's user. *)
C20_CompletedMeansSent ==
    (\A p \in SeqProcs : pc[p] = "idle") =>
        \A w \in withdrawalRequests :
            w.status = "completed" =>
                \E i \in DOMAIN chainOut :
                    /\ chainOut[i].kind = "withdrawal"
                    /\ chainOut[i].to = users[w.userId].pubKey
                    /\ chainOut[i].amount = w.amount

-----------------------------------------------------------------------------
(* Claims on concurrent calls, users and referrers *)

(* C21: for any interleaving of open, confirm and withdraw calls on one
   user, once every call has returned the balance is the one a serial run of
   the successful calls leaves: initial + completed deposits - withdrawals
   sent - principals of the investments opened. *)
C21_SerialBalance ==
    (\A p \in Procs : pc[p] = "idle") =>
        users[1].balance =
            InitialBalance + SumAmount(CompletedDeposits(1))
              - SumSeqAmount(SentTo("k1"))
              - SumAmount(InvestmentsOfUser(1))

(* the ids met by following ref_id edges upward from u, at most n edges *)
RECURSIVE Upward(_, _)
Upward(u, n) ==
    IF n = 0 \/ u \notin DOMAIN users \/ users[u].refId = NoRef THEN {}
    ELSE {users[u].refId} \cup Upward(users[u].refId, n - 1)

(* C22: the referrer relation stays a forest.  After any sequence of
   createUser and deleteUser calls, following ref_id edges upward from a user
   never returns to that user: no self-referral, no cycle. *)
C22_ReferrerForest ==
    \A u \in DOMAIN users : u \notin Upward(u, Cardinality(ReferralIds))

C23_OnePerPubKey ==
    \A k \in PubKeys \cup NewKeys : Cardinality(UserByPubKey(k)) <= 1

C23_StoredUserKept ==
    \A u \in DOMAIN users : u \in DOMAIN users' /\ users'[u] = users[u]

(* C23: at most one user exists per pub_key after any interleaving of
   createUser calls, and no step of a createUser call changes a stored user:
   a call for a registered pub_key leaves its id, balance and ref_id as they
   are, whatever id and ref_id the call supplies. *)
C23_PubKeyUnique ==
    []C23_OnePerPubKey /\ [][C23_StoredUserKept]_vars

(* both handlers went for the new pub_key k3 with different ids: one row was
   stored and the other call failed; a call for the registered k1 returned *)
C23_Witness ==
    /\ Cardinality(UserByPubKey("k3")) = 1
    /\ resp["p1"].status = "failed to create user"
    /\ resp["p2"].status = "user"
    /\ pc["p1"] = "idle" /\ pc["p2"] = "idle"
    /\ users[1] = [pubKey |-> "k1", balance |-> InitialBalance, refId |-> NoRef]

(* C24: a setBalance or deleteUser request whose X-API-Key differs from the
   configured admin key is answered 401 by the middleware, the handler never
   runs for it, and the step changes no user, balance or investment. *)
C24_AdminOnly ==
    [][\A p \in Procs :
          /\ (pc[p] = "admin_auth" /\ req[p].apiKey # AdminAPIKey /\ pc'[p] # pc[p])
                => /\ pc'[p] = "idle"
                   /\ resp'[p] = Answer("invalid API key", 401)
                   /\ users' = users
                   /\ investments' = investments
          /\ pc'[p] = "admin_next" => req'[p].apiKey = AdminAPIKey]_vars

(* a request without the key was turned away from a user that holds an
   investment, and a request with the key has deleted the other user *)
C24_Witness ==
    /\ resp["p1"] = Answer("invalid API key", 401)
    /\ resp["p2"].status = "deleted"
    /\ DOMAIN users = {1}
    /\ InvestmentsOfUser(1) # {}

ReferralOperations(log, r) ==
    SelectSeq(log, LAMBDA o : o.userId = r /\ o.type = "referral_earning")

(* C25: every step that credits a referral earning to a referrer's balance
   appends one Operation row of type referral_earning for that referrer. *)
C25_EarningInHistory ==
    [][\A p \in SeqProcs, r \in DOMAIN users :
          (/\ req[p].op = "distribute"
           /\ r \in DOMAIN users'
           /\ users'[r].balance > users[r].balance)
             => Len(ReferralOperations(operations', r)) =
                   Len(ReferralOperations(operations, r)) + 1]_vars

-----------------------------------------------------------------------------
(* Claims on the steps of withdraw *)

(* the record the call in progress has inserted: calls are served one after
   another, so it is the newest row *)
InsertedBy(p) ==
    {w \in withdrawalRequests :
        w.userId = req[p].uid /\ w.id = Cardinality(withdrawalRequests)}

(* C26: withdraw steps 1-2.  Step (2) marks completed exactly the pending
   record step (1) of the same call inserted, and changes the status of no
   other withdrawal record. *)
C26_MarksOwnRecord ==
    [][\A p \in SeqProcs :
          (pc[p] = "wf_confirm" /\ pc'[p] = "wf_send")
             => withdrawalRequests' =
                   {IF w \in InsertedBy(p) THEN [w EXCEPT !.status = "completed"]
                    ELSE w : w \in withdrawalRequests}]_vars

(* the withdrawal records that carry transaction identifier h: tx_hash is a
   column of table withdrawals only, withdrawal_requests has none *)
RecordsWithHash(h) == {w \in withdrawals : w.txHash = h}

(* C27: once step (4) of a withdraw whose transfer succeeded has run, the
   transaction identifier the transfer returned is attached to a withdrawal
   record of the calling user. *)
C27_HashAttached ==
    [][\A p \in SeqProcs :
          (pc[p] = "wf_hash" /\ pc'[p] = "wf_balance")
             => \E w \in RecordsWithHash(req[p].hash)' : w.userId = req[p].uid]_vars

(* C28: a step of a withdraw call changes the user's balance only after its
   transfer returned a transaction identifier, and then lowers it by exactly
   the requested amount; the step in which the transfer fails changes no
   balance, appends no Operation and leaves the record of the call marked
   completed. *)
C28_DebitIffTransferred ==
    [][\A p \in SeqProcs :
          req[p].op = "withdraw" =>
             /\ users' # users =>
                   /\ pc[p] = "wf_balance"
                   /\ req[p].hash \in 1..Len(chainOut)
                   /\ users'[req[p].uid].balance =
                         users[req[p].uid].balance - req[p].amount
             /\ (pc[p] = "wf_send" /\ pc'[p] = "idle") =>
                   /\ users' = users
                   /\ operations' = operations
                   /\ InsertedBy(p) # {}
                   /\ \A w \in InsertedBy(p) : w.status = "completed"]_vars

(* C29: a withdraw whose transfer and debit succeeded answers success with
   the transaction hash although the hash was not persisted on a withdrawal
   record and whether or not the withdrawal Operation could be appended; the
   steps after the debit leave the debited balance as it is. *)
C29_SuccessDespiteBookkeeping ==
    [][\A p \in SeqProcs :
          /\ (pc[p] = "wf_hash" /\ pc'[p] # "wf_hash")
                => pc'[p] = "wf_balance" /\ users' = users
          /\ (pc[p] = "wf_operation" /\ pc'[p] # "wf_operation")
                => /\ resp'[p].code = 200
                   /\ resp'[p].remaining = req[p].hash
                   /\ chainOut[req[p].hash].amount = req[p].amount
                   /\ users' = users
                   /\ users[req[p].uid].balance = req[p].ubal - req[p].amount]_vars

(* user 1 was answered success with the hash of its transfer of 300, the
   balance is debited, and neither a withdrawal record with the hash nor a
   withdrawal Operation exists *)
C29_Witness ==
    /\ resp["p1"].status = "withdrawn"
    /\ resp["p1"].remaining \in 1..Len(chainOut)
    /\ Len(SentTo("k1")) = 1
    /\ users[1].balance = InitialBalance + ConfirmAmount - 300
    /\ RecordsWithHash(resp["p1"].remaining) = {}
    /\ OpsOf(1, "withdrawal") = <<>>

-----------------------------------------------------------------------------
(* Claims on failing referral hops *)

HopError(answer) ==
    answer.code = 500 /\ \E k \in DOMAIN EarningStatements :
                            answer.status = EarningStatements[k] \o " failed"

LevelsOf(rows, referred) == {e.level : e \in EarningsFrom(rows, referred)}

(* C30: referral hops are independent atomic units.  The step in which
   distribute fails at a hop returns the error to the caller and changes no
   earning and no balance, so the rows and credits of the hops before it
   stay and the rows of the call are exactly those of the levels before the
   failing one; a step of the call adds a row for a level only when every
   level before it has its row, so no hop is paid after a failed one. *)
C30_HopsIndependent ==
    [][\A p \in SeqProcs :
          (req[p].op = "distribute" /\ pc[p] = "re_earn") =>
             /\ (pc'[p] = "idle" /\ req[p].id < Len(req[p].chain))
                   => /\ HopError(resp'[p])
                      /\ users' = users
                      /\ referralEarnings' = referralEarnings
                      /\ LevelsOf(referralEarnings, req[p].uid) = 1..req[p].id
             /\ referralEarnings' # referralEarnings
                   => /\ pc'[p] = "re_earn"
                      /\ LevelsOf(referralEarnings, req[p].uid) = 1..req[p].id
                      /\ LevelsOf(referralEarnings', req[p].uid) =
                            1..(req[p].id + 1)]_vars

(* distribute failed at hop 2 of a chain of three referrers: the level-1
   row and its credit are in the store, levels 2 and 3 have no row *)
C30_Witness ==
    /\ HopError(resp["p1"])
    /\ pc["p1"] = "idle"
    /\ \E d \in DOMAIN users :
          /\ Len(ReferrerChain(d, MaxHops)) = MaxHops
          /\ DOMAIN users = ReferralIds
          /\ {e.level : e \in EarningsFrom(referralEarnings, d)} = {1}
          /\ users[users[d].refId].balance = Earnings(100, 1)
          /\ referralEarnings = EarningsFrom(referralEarnings, d)

-----------------------------------------------------------------------------
(* Claims on referral hops, the request layer and implicit properties *)

(* C31: each referral hop is atomic.  Every step that inserts a
   ReferralEarning row credits the amount of the row to the balance of its
   referrer, who exists; a row whose referrer does not exist is never
   inserted. *)
C31_RowIffCredit ==
    [][\A e \in referralEarnings' \ referralEarnings :
          /\ e.referrerId \in DOMAIN users
          /\ e.referrerId \in DOMAIN users'
          /\ users'[e.referrerId].balance =
                users[e.referrerId].balance + e.amount]_vars

C32_AtMostThreeHops ==
    /\ \A p \in SeqProcs :
          req[p].op = "distribute" =>
             /\ Len(req[p].chain) <= MaxHops
             /\ req[p].id <= Len(req[p].chain)
    /\ \A d \in ReferralIds :
          /\ LevelsOf(referralEarnings, d) \subseteq 1..MaxHops
          /\ Cardinality(EarningsFrom(referralEarnings, d)) =
                Cardinality(LevelsOf(referralEarnings, d))

C32_Returns ==
    \A p \in SeqProcs : (req[p].op = "distribute") ~> (pc[p] = "idle")

(* C32: distribute walks at most 3 hops along ref_id.  On every referral
   graph, with self-referrals and cycles, the chain never holds more than 3
   referrers, one profit event has at most 3 earning rows with levels 1, 2, 3
   each used at most once, and every distribute call returns. *)
C32_BoundedWalk == []C32_AtMostThreeHops /\ C32_Returns

(* distribute has returned on a self-referral: three rows, all for the
   user that refers to itself *)
C32_Witness ==
    \E d \in DOMAIN users :
        /\ users[d].refId = d
        /\ LevelsOf(referralEarnings, d) = 1..MaxHops
        /\ \A e \in referralEarnings : e.referrerId = d
        /\ resp["p1"].status = "distributed"

(* the tokens the bucket of client ip holds for a request arriving now *)
TokensFor(ip) == Refilled(BucketOf(ip)).tokens

(* C33: every request to an API route passes the per-client token bucket
   before its handler runs.  The handler of a route is entered only in a step
   that takes one token from the bucket of the client, so never for a client
   whose bucket holds less than one token (that request is answered 429). *)
C33_LimiterAhead ==
    [][\A p \in Procs :
          (pc[p] = "idle" /\ pc'[p] = "api_handler") =>
             LET ip == req'[p].clientIP IN
             /\ ~(TokensFor(ip) < 1)
             /\ ip \in DOMAIN ips'
             /\ ips'[ip].tokens = TokensFor(ip) - 1]_vars

(* C34: without setBalance and distribute, no interleaving of open, close,
   createIntent, confirm and withdraw calls with positive amounts stores a
   negative balance, and no handler holds a balance it read as negative. *)
C34_NeverNegative ==
    /\ \A u \in DOMAIN users : ~(users[u].balance < 0)
    /\ \A p \in Procs : ~(req[p].ubal < 0)

(* an open of the whole balance has committed while a confirm that read the
   balance before it is about to store its sum *)
C34_Witness ==
    /\ users[1].balance = 0
    /\ InvestmentsOfUser(1) # {}
    /\ \E p \in Procs : pc[p] = "cd_balance" /\ req[p].ubal = InitialBalance

(* C35: two concurrent withdraw calls of one user cannot both pass the
   checks against the same state.  Once the calls have returned, the total
   sent on-chain to the user is at most the total debited from its balance
   by the withdrawals, and at most the balance it had before them. *)
C35_SentWithinDebit ==
    (\A p \in Procs : pc[p] = "idle") =>
        LET before == InitialBalance + SumAmount(CompletedDeposits(1))
            sent == SumSeqAmount(SentTo("k1"))
        IN  /\ sent <= before - users[1].balance
            /\ sent <= before

(* the platform-fee transfers sent for the payment with memo m *)
FeesFor(m) == SelectSeq(chainOut, LAMBDA t : t.kind = "fee" /\ t.ref = m)

(* C36: for each DepositRequest the platform-fee transfer is sent at most
   once, over any sequence or interleaving of confirm calls (a request whose
   memo no other request shares is matched by its own payment only). *)
C36_FeeOnce ==
    \A d \in depositRequests :
        (\A e \in depositRequests : e.memo = d.memo => e = d)
           => Len(FeesFor(d.memo)) <= 1

(* C37: distribute(user, profit) never credits the user whose profit
   triggered it and never credits the same referrer at two levels for one
   profit event (each user's profit is distributed at most once here, so the
   rows with one referred id belong to one event). *)
C37_NoSelfNoRepeat ==
    \A e \in referralEarnings :
        /\ e.referrerId # e.referredId
        /\ \A f \in referralEarnings :
              (f.referredId = e.referredId /\ f.referrerId = e.referrerId)
                 => f.level = e.level

(* C38: referential integrity.  In every reachable state every ref_id,
   investment, deposit request, withdrawal record, referral earning and
   operation refers to a user that exists. *)
C38_ReferentialIntegrity ==
    /\ \A u \in DOMAIN users :
          users[u].refId # NoRef => users[u].refId \in DOMAIN users
    /\ \A i \in investments : i.userId \in DOMAIN users
    /\ \A d \in depositRequests : d.userId \in DOMAIN users
    /\ \A w \in withdrawalRequests : w.userId \in DOMAIN users
    /\ \A e \in referralEarnings :
          e.referrerId \in DOMAIN users /\ e.referredId \in DOMAIN users
    /\ \A k \in 1..Len(operations) : operations[k].userId \in DOMAIN users

(* user 1 has a completed deposit, the balance for a withdrawal of
   SolventAmount and that much available under the ceiling *)
C39_Ready ==
    /\ CompletedDeposits(1) # {}
    /\ users[1].balance >= SolventAmount
    /\ ~ExceedsAvailable(SumAmount(CompletedDeposits(1)),
                         SumAmount(WithdrawalHistory(1)), SolventAmount)

C39_Withdrawn == \E p \in Procs : resp[p].status = "withdrawn"

(* C39: withdrawal is never blocked forever.  Once user 1 has completed
   deposits, a sufficient balance and a positive available amount, and the
   chain accepts transfers, a withdraw call eventually succeeds, also when
   the user has created a deposit intent whose payment never arrives. *)
C39_NeverBlocked == C39_Ready ~> C39_Withdrawn

(* the close calls that have answered "investment deleted successfully" *)
ClosesSucceeded ==
    {p \in Procs : resp[p].status = "investment deleted successfully"}

(* C40: two concurrent close calls on the same investment return its
   principal at most once.  At most one investment_closed Operation is
   appended, the balance and the open principal of the user always add up to
   the initial balance, and once both calls have answered exactly one of them
   has succeeded. *)
C40_ClosedOnce ==
    /\ Len(OpsOf(1, "investment_closed")) <= 1
    /\ users[1].balance + SumAmount(InvestmentsOfUser(1)) = InitialBalance
    /\ Cardinality(ClosesSucceeded) = Len(OpsOf(1, "investment_closed"))
    /\ (\A p \in Procs : pc[p] = "idle" /\ resp[p].status # "none")
          => Cardinality(ClosesSucceeded) = 1

(* both calls read the investment, one committed and the other was refused *)
C40_Witness ==
    /\ \E p, q \in Procs :
          /\ resp[p].status = "investment deleted successfully"
          /\ resp[q].status = "database is locked"
    /\ \A p \in Procs : pc[p] = "idle"
    /\ InvestmentsOfUser(1) = {}
    /\ users[1].balance = InitialBalance
    /\ Len(OpsOf(1, "investment_closed")) = 1

====
